---- MODULE Spec2Model ----
(***************************************************************************)
(* content-repurposer: transcript acquisition with two providers and a     *)
(* placeholder fallback (processYouTubeUrl), transcript refinement in      *)
(* batches (refineTranscript / refineBatchWithGemini) and blog composition *)
(* (generateBlogFromTranscript).                                           *)
(*                                                                         *)
(* The repository holds several drafts of the same files.  The drafts are  *)
(* told apart by a value chosen in Init:                                   *)
(*   controller "eager" = src/src/controllers/combinedController.js        *)
(*   controller "lazy"  = src/unnamed/part_002                             *)
(*   original   "basic" = src/src/services/transcriptService.js            *)
(*   original   "full"  = src/unnamed/part_001, lines 322-666              *)
(*   alternative        = src/unnamed/part_001, lines 1-321                *)
(*   blog       "basic" = src/src/services/blogGeneratorService.js         *)
(*   blog       "retry" = src/src/controllers/blogController.js            *)
(* Texts are sequences of one-character strings.                           *)
(***************************************************************************)
EXTENDS Integers, Sequences, FiniteSets, TLC

VARIABLES
    controller,              \* draft of combinedController deployed
    originalDraft,           \* draft of transcriptService deployed
    altLoadable,             \* require('../services/alternativeTranscriptService') succeeds
    apiKey,                  \* process.env.GEMINI_API_KEY is set
    production,              \* process.env.NODE_ENV === 'production'
    geminiModel,             \* per module: the lazily initialised geminiModel is set
    pc,                      \* position of the handler in the acquisition state machine
    req,                     \* the request body after defaults
    transcript,              \* let transcript
    transcriptUnavailable,   \* let transcriptUnavailable
    usedAlternativeService,  \* let usedAlternativeService
    transcriptError,         \* let transcriptError (the primary's error)
    response,                \* what res.status(..).json(..) was given, or NoResponse
    calls,                   \* provider calls made for the current request, in order
    nreq,                    \* requests received so far
    rSvc,                    \* refineTranscript: the provider module whose function runs
    rInput,                  \* refineTranscript: the argument transcript
    rpc,                     \* refineTranscript: "idle", "start", "wait" (at the await), "done"
    rI,                      \* refineTranscript: the loop variable i
    refinedTranscript,       \* refineTranscript: const refinedTranscript = []
    rOut,                    \* refineTranscript: the value returned
    pending,                 \* refineTranscript: batches whose generateContent is in flight
    requests,                \* refineTranscript: prompts sent to the generative provider
    replies,                 \* refineTranscript: what came back, in order
    bDraft,                  \* generateBlogFromTranscript: draft of blogGeneratorService
    bInput,                  \* generateBlogFromTranscript: the argument transcript
    bVideoId,                \* generateBlogFromTranscript: the argument videoId
    bpc,                     \* generateBlogFromTranscript: "idle", "start", "wait", "backoff", "done"
    attempts,                \* generateBlogFromTranscript: let attempts
    blogContent,             \* generateBlogFromTranscript: let blogContent, <<>> when null or ""
    bRequests,               \* generateBlogFromTranscript: generateContent calls made
    bLog,                    \* generateBlogFromTranscript: how each attempt settled, in order
    bOut,                    \* generateBlogFromTranscript: the Article returned or the Error thrown
    xImpl,                   \* getVideoId: "service" (transcriptService.js) or "worker" (index.ts)
    xUrl,                    \* getVideoId: the argument url
    xpc,                     \* getVideoId: "idle", "start", "done"
    xOut,                    \* getVideoId: the value returned
    combinedCache,           \* the NodeCache of the controller: key -> [v, t]
    now,                     \* Date.now(), in seconds
    ticks,                   \* how often the clock has advanced
    lastSet,                 \* per key: value, time and caller of the last combinedCache.set
    got,                     \* what the last combinedCache.get returned
    handlers,                \* per request in flight: the locals of processYouTubeUrl
    fetch                    \* one call fetchTranscript of a provider: its locals

procVars == <<controller, originalDraft, altLoadable, apiKey, production, geminiModel,
              pc, req, transcript, transcriptUnavailable, usedAlternativeService,
              transcriptError, response, calls, nreq>>

refVars == <<rSvc, rInput, rpc, rI, refinedTranscript, rOut, pending, requests, replies>>

compVars == <<bDraft, bInput, bVideoId, bpc, attempts, blogContent, bRequests, bLog, bOut>>

extractVars == <<xImpl, xUrl, xpc, xOut>>

cacheVars == <<combinedCache, now, ticks, lastSet, got>>

pipeVars == <<extractVars, cacheVars, handlers, fetch>>

vars == <<procVars, refVars, compVars, pipeVars>>

-----------------------------------------------------------------------------
(* Bounds *)

MaxSegs == 3        \* longest transcript an upstream returns to the handler
MaxRequests == 2    \* requests handled one after another by one process
MaxLen == 31        \* longest transcript handed to refineTranscript
MaxBlogSegs == 2    \* longest transcript handed to generateBlogFromTranscript
MaxClientCalls == 2  \* how often one caller asks for the YouTube client
MaxTracks == 2      \* longest list of caption tracks a video has
MaxPipelineTicks == 2   \* how often the clock advances while requests are in flight
MaxTicks == 3       \* how often the clock advances

-----------------------------------------------------------------------------
(* Values *)

NoResponse == [status |-> 0]            \* nothing has been sent yet
NoError == [head |-> "", detail |-> ""] \* transcriptError = null

Rep(c, n) == [i \in 1..n |-> c]

\* the 11-character identifiers getVideoId hands to the handler
VideoIds == { <<"d","Q","w","4","w","9","W","g","X","c","Q">>,
              <<"a","b","c","d","e","f","g","h","i","j","k">> }

Digits == <<"0","1","2","3","4","5","6","7","8","9">>

RECURSIVE Decimal(_)
Decimal(n) == IF n < 10 THEN <<Digits[n + 1]>>
              ELSE Decimal(n \div 10) \o <<Digits[(n % 10) + 1]>>

\* the caption text the upstream holds for the i-th segment of a video
Caption(i) == <<"c","a","p">> \o Decimal(i)

Services == {"original", "alternative"}

-----------------------------------------------------------------------------
(* Transcript providers: fetchTranscript *)

\* What the upstream of a provider does for one fetchTranscript call:
\* n caption segments, or one of the failures the catch blocks tell apart.
Causes == {"probe", "disabled", "unavailable", "nolang", "nocaptions", "other"}

UpstreamOutcomes ==
    [ok : {TRUE}, n : 0..MaxSegs] \cup [ok : {FALSE}, cause : Causes]

Err(head, detail) == [head |-> head, detail |-> detail]

\* The message of the Error a provider's fetchTranscript throws.
fetchTranscriptError(svc, draft, cause) ==
    IF svc = "alternative" THEN
        CASE cause = "nocaptions"  -> Err("Transcript unavailable: No captions found for video", "")
          [] cause = "unavailable" -> Err("Video unavailable: The video may be private, deleted, or age-restricted", "")
          [] OTHER                 -> Err("Failed to fetch transcript: ", cause)
    ELSE IF draft = "basic" THEN
        CASE cause = "disabled"    -> Err("Transcript is disabled for this video. The video owner has not enabled captions.", "")
          [] cause = "unavailable" -> Err("The requested video is unavailable. It may be private, deleted, or age-restricted.", "")
          [] cause = "nolang"      -> Err("No transcript available in the requested language. Try a different language or video.", "")
          [] cause = "probe"       -> Err("Failed to fetch transcript: ", "Video not available: Video not found or is private")
          [] cause = "empty"       -> Err("Failed to fetch transcript: ", "Transcript not available for this video")
          [] OTHER                 -> Err("Failed to fetch transcript: ", cause)
    ELSE
        CASE cause = "disabled"    -> Err("Transcript is disabled for this video. Please try a different video or use a video with captions enabled.", "")
          [] cause = "nolang"      -> Err("No transcript available in the requested language. Try a different language or video.", "")
          [] cause = "probe"       -> Err("Unable to fetch transcript: ", "Video not found or inaccessible")
          [] cause = "empty"       -> Err("Unable to fetch transcript: ", "Empty transcript retrieved")
          [] OTHER                 -> Err("Unable to fetch transcript: ", cause)

\* transcriptList.map(item => ({text, start, duration})); the alternative
\* provider adds the language of the selected track.
fetchTranscriptSegments(svc, n) ==
    IF svc = "alternative"
    THEN [i \in 1..n |-> [text |-> Caption(i), start |-> i - 1, duration |-> 1,
                          language |-> "en"]]
    ELSE [i \in 1..n |-> [text |-> Caption(i), start |-> i - 1, duration |-> 1]]

\* fetchTranscript(videoId, language) of a provider, given what its upstream does:
\* [ok |-> TRUE, value |-> transcript] or [ok |-> FALSE, error |-> message].
fetchTranscript(svc, draft, u) ==
    IF u.ok /\ u.n > 0
    THEN [ok |-> TRUE, value |-> fetchTranscriptSegments(svc, u.n)]
    ELSE [ok |-> FALSE,
          error |-> fetchTranscriptError(svc, draft, IF u.ok THEN "empty" ELSE u.cause)]

-----------------------------------------------------------------------------
(* Transcript providers: generateBasicTranscript *)

\* What the generative provider does for one generateContent call whose text is
\* used as it is: a text (possibly empty), or a failure.
GeneratedTexts == { <<>>, <<"n","o"," ","c","a","p","t","i","o","n","s">> }

GenerateOutcomes == [ok : {TRUE}, text : GeneratedTexts] \cup [ok : {FALSE}]

\* What the metadata lookup (getInfo / oEmbed) does.
MetaOutcomes == {"title", "notitle", "fail"}

\* `I'm sorry, the transcript for ... ${videoId} ... is unavailable. ...`
TemplateText(svc, videoId) ==
    IF svc = "alternative"
    THEN <<"s","o","r","r","y"," ","\"">> \o videoId \o <<"\"">>
    ELSE <<"s","o","r","r","y"," ","(">> \o videoId \o <<")">>

\* initializeGeminiAPI(): throws without the key, else sets geminiModel
initializeGeminiAPI(key) ==
    IF key THEN [threw |-> FALSE, ready |-> TRUE]
    ELSE [threw |-> TRUE, ready |-> FALSE, error |-> Err("Gemini API key is required", "")]

\* generateBasicTranscript(videoId) of the alternative provider and of the full
\* draft of the original provider.  ready = the module's geminiModel is set.
\* The initialisation stands before the try block.
generateBasicTranscript(svc, videoId, ready, key, meta, gem) ==
    LET init == IF ready THEN [threw |-> FALSE, ready |-> TRUE] ELSE initializeGeminiAPI(key)
        videoTitle == IF meta = "title" THEN "title" ELSE "this video"
        segment(text) == [text |-> text, start |-> 0, duration |-> 10,
                          isUnavailableMessage |-> TRUE]
    IN  IF init.threw
        THEN [threw |-> TRUE, error |-> init.error, ready |-> FALSE, prompted |-> FALSE]
        ELSE [threw |-> FALSE, ready |-> TRUE, prompted |-> TRUE, title |-> videoTitle,
              value |-> IF gem.ok THEN <<segment(gem.text)>>
                        ELSE <<segment(TemplateText(svc, videoId))>>]

-----------------------------------------------------------------------------
(* processYouTubeUrl: acquisition *)

Urls == {[present |-> FALSE, id |-> <<>>]} \cup [present : {TRUE}, id : VideoIds \cup {<<>>}]

Bodies == [url : Urls, fallbackMessage : BOOLEAN, preferAlternativeService : BOOLEAN]

NoBody == [url |-> [present |-> FALSE, id |-> <<>>], fallbackMessage |-> TRUE,
           preferAlternativeService |-> FALSE]

DraftOf(svc) == IF svc = "original" THEN originalDraft ELSE "alternative"

\* the lazy draft swaps the providers only when the alternative module loads
Swapped(c, prefer, loadable) ==
    IF c = "eager" THEN prefer ELSE prefer /\ loadable

PrimaryService(c, prefer, loadable) ==
    IF Swapped(c, prefer, loadable) THEN "alternative" ELSE "original"

\* "none": the lazy draft has no secondary unless it swapped
SecondaryService(c, prefer, loadable) ==
    IF c = "eager" THEN (IF prefer THEN "original" ELSE "alternative")
    ELSE IF prefer /\ loadable THEN "original" ELSE "none"

\* the flag follows the request's option although the module did not load
UsedAlternativeAfterPrimary_OptionOnly(c, prefer, loadable) == prefer

\* usedAlternativeService after the primary's fetchTranscript returned
UsedAlternativeAfterPrimary(c, prefer, loadable) == Swapped(c, prefer, loadable)

\* the flag is set whenever the secondary answered
UsedAlternativeAfterSecondary_Always(c, prefer, loadable) == TRUE

\* usedAlternativeService after the secondary's fetchTranscript returned
UsedAlternativeAfterSecondary(c, prefer, loadable) == ~Swapped(c, prefer, loadable)

\* the provider whose generateBasicTranscript is called
FallbackService(c, prefer, loadable) ==
    IF c = "eager" THEN "alternative" ELSE PrimaryService(c, prefer, loadable)

BadRequest(error, message) ==
    [status |-> 400, success |-> FALSE, error |-> error, message |-> message]

\* a 404 that reports the secondary's message
TranscriptUnavailableResponse_Secondary(primaryError, secondaryError, videoId) ==
    [status |-> 404, success |-> FALSE, error |-> "Transcript unavailable",
     message |-> [head |-> "Unable to retrieve transcript: ", inner |-> secondaryError],
     videoId |-> videoId]

\* res.status(404).json({... message: `Unable to retrieve transcript: ${primaryError.message}` ...})
TranscriptUnavailableResponse(primaryError, secondaryError, videoId) ==
    [status |-> 404, success |-> FALSE, error |-> "Transcript unavailable",
     message |-> [head |-> "Unable to retrieve transcript: ", inner |-> primaryError],
     videoId |-> videoId]

\* the outer catch of the handler
ProcessingFailed(error, prod) ==
    [status |-> 500, success |-> FALSE, error |-> "Processing failed",
     message |-> IF prod
                 THEN Err("An unexpected error occurred while processing the request", "")
                 ELSE error]

Call(svc, fn, result) == [svc |-> svc, fn |-> fn, result |-> result]

Prefer == req.preferAlternativeService

configVars == <<controller, originalDraft, altLoadable, apiKey, production>>

ConfigInit ==
    /\ controller \in {"eager", "lazy"}
    /\ originalDraft \in {"basic", "full"}
    /\ controller = "lazy" => originalDraft = "full"
    /\ altLoadable \in BOOLEAN
    /\ controller = "eager" => altLoadable
    /\ apiKey \in BOOLEAN
    /\ production \in BOOLEAN

Modules == {"original", "alternative", "blog"}

HandlerIdle ==
    /\ pc = "Idle"
    /\ req = NoBody
    /\ transcript = <<>>
    /\ transcriptUnavailable = FALSE
    /\ usedAlternativeService = FALSE
    /\ transcriptError = NoError
    /\ response = NoResponse
    /\ calls = <<>>
    /\ nreq = 0

RefineIdle ==
    /\ rSvc = "original"
    /\ rInput = <<>>
    /\ rpc = "idle"
    /\ rI = 0
    /\ refinedTranscript = <<>>
    /\ rOut = <<>>
    /\ pending = {}
    /\ requests = <<>>
    /\ replies = <<>>

NoResult == [ok |-> FALSE, error |-> NoError]

ComposeIdle ==
    /\ bDraft = "basic"
    /\ bInput = <<>>
    /\ bVideoId = <<>>
    /\ bpc = "idle"
    /\ attempts = 0
    /\ blogContent = <<>>
    /\ bRequests = 0
    /\ bLog = <<>>
    /\ bOut = NoResult

\* getVideoId returned null
NoId == [ok |-> FALSE, id |-> <<>>]

ExtractIdle ==
    /\ xImpl = "service"
    /\ xUrl = <<>>
    /\ xpc = "idle"
    /\ xOut = NoId

\* combinedCache.get(key) returned undefined
Miss == [hit |-> FALSE]

\* no combinedCache.get has been made
NoGet == [key |-> <<>>, at |-> 0, result |-> Miss, set |-> FALSE, evicted |-> FALSE]

\* the cache after new NodeCache(..), at the start of the clock
CacheIdle ==
    /\ combinedCache = <<>>
    /\ now = 1
    /\ ticks = 0
    /\ lastSet = <<>>
    /\ got = NoGet

Handlers == {1, 2}

\* no request is being handled in this slot
IdleHandler == [pc |-> "Idle"]

\* no fetchTranscript call is being followed
FetchIdle == [pc |-> "idle"]

PipelineIdle ==
    /\ ExtractIdle
    /\ CacheIdle
    /\ handlers = [h \in Handlers |-> IdleHandler]
    /\ fetch = FetchIdle

\* the process after its modules were loaded, before the first request
Init ==
    /\ ConfigInit
    /\ geminiModel = [m \in Modules |-> FALSE]
    /\ HandlerIdle
    /\ RefineIdle
    /\ ComposeIdle
    /\ PipelineIdle

\* lines 19-49 and 86-94: read the body, validate, reset the request's locals
Receive(body) ==
    /\ pc = "Idle"
    /\ nreq < MaxRequests
    /\ nreq' = nreq + 1
    /\ req' = body
    /\ calls' = <<>>
    /\ transcript' = <<>>
    /\ transcriptUnavailable' = FALSE
    /\ usedAlternativeService' = FALSE
    /\ transcriptError' = NoError
    /\ IF ~body.url.present
       THEN /\ response' = BadRequest("YouTube URL is required",
                                      "Please provide a valid YouTube URL in the request body")
            /\ pc' = "Responded"
       ELSE IF body.url.id = <<>>
       THEN /\ response' = BadRequest("Invalid YouTube URL",
                                      "Could not extract a valid YouTube video ID from the provided URL")
            /\ pc' = "Responded"
       ELSE /\ response' = NoResponse
            /\ pc' = "TryPrimary"
    /\ UNCHANGED pipeVars
    /\ UNCHANGED <<refVars, compVars, configVars, geminiModel>>

\* first attempt with the primary service
TryPrimary(u) ==
    /\ pc = "TryPrimary"
    /\ LET p == PrimaryService(controller, Prefer, altLoadable)
           s == SecondaryService(controller, Prefer, altLoadable)
           r == fetchTranscript(p, DraftOf(p), u)
       IN  /\ calls' = Append(calls, Call(p, "fetchTranscript", r))
           /\ IF r.ok
              THEN /\ transcript' = r.value
                   /\ usedAlternativeService' =
                          UsedAlternativeAfterPrimary(controller, Prefer, altLoadable)
                   /\ pc' = "Acquired"
                   /\ UNCHANGED <<transcriptError, response>>
              ELSE /\ transcriptError' = r.error
                   /\ UNCHANGED <<transcript, usedAlternativeService>>
                   /\ IF s # "none"
                      THEN pc' = "TrySecondary" /\ UNCHANGED response
                      ELSE IF req.fallbackMessage
                      THEN pc' = "Synthesize" /\ UNCHANGED response
                      ELSE /\ pc' = "Responded"
                           /\ response' = TranscriptUnavailableResponse(r.error, NoError,
                                                                        req.url.id)
    /\ UNCHANGED pipeVars
    /\ UNCHANGED <<refVars, compVars, configVars, geminiModel, req, transcriptUnavailable, nreq>>

\* second attempt with the secondary service
TrySecondary(u) ==
    /\ pc = "TrySecondary"
    /\ LET s == SecondaryService(controller, Prefer, altLoadable)
           r == fetchTranscript(s, DraftOf(s), u)
       IN  /\ calls' = Append(calls, Call(s, "fetchTranscript", r))
           /\ IF r.ok
              THEN /\ transcript' = r.value
                   /\ usedAlternativeService' =
                          (IF UsedAlternativeAfterSecondary(controller, Prefer, altLoadable)
                           THEN TRUE ELSE usedAlternativeService)
                   /\ pc' = "Acquired"
                   /\ UNCHANGED response
              ELSE /\ UNCHANGED <<transcript, usedAlternativeService>>
                   /\ IF req.fallbackMessage
                      THEN pc' = "Synthesize" /\ UNCHANGED response
                      ELSE /\ pc' = "Responded"
                           /\ response' = TranscriptUnavailableResponse(transcriptError, r.error,
                                                                        req.url.id)
    /\ UNCHANGED pipeVars
    /\ UNCHANGED <<refVars, compVars, configVars, geminiModel, req, transcriptUnavailable, transcriptError, nreq>>

\* both services failed and fallbackMessage is set: generateBasicTranscript;
\* what it throws reaches the handler's outer catch
Synthesize(meta, gem) ==
    /\ pc = "Synthesize"
    /\ LET f == FallbackService(controller, Prefer, altLoadable)
           g == generateBasicTranscript(f, req.url.id, geminiModel[f], apiKey, meta, gem)
       IN  /\ calls' = Append(calls, Call(f, "generateBasicTranscript", g))
           /\ geminiModel' = [geminiModel EXCEPT ![f] = g.ready]
           /\ IF g.threw
              THEN /\ response' = ProcessingFailed(g.error, production)
                   /\ pc' = "Responded"
                   /\ UNCHANGED <<transcript, transcriptUnavailable>>
              ELSE /\ transcript' = g.value
                   /\ transcriptUnavailable' = TRUE
                   /\ pc' = "Acquired"
                   /\ UNCHANGED response
    /\ UNCHANGED pipeVars
    /\ UNCHANGED <<refVars, compVars, configVars, req, usedAlternativeService, transcriptError, nreq>>

\* the handler has returned: its locals are gone, the modules' state stays
Return ==
    /\ pc \in {"Acquired", "Responded"}
    /\ pc' = "Idle"
    /\ req' = NoBody
    /\ transcript' = <<>>
    /\ transcriptUnavailable' = FALSE
    /\ usedAlternativeService' = FALSE
    /\ transcriptError' = NoError
    /\ response' = NoResponse
    /\ calls' = <<>>
    /\ UNCHANGED pipeVars
    /\ UNCHANGED <<refVars, compVars, configVars, geminiModel, nreq>>

Next ==
    \/ \E body \in Bodies : Receive(body)
    \/ \E u \in UpstreamOutcomes : TryPrimary(u)
    \/ \E u \in UpstreamOutcomes : TrySecondary(u)
    \/ \E meta \in MetaOutcomes, gem \in GenerateOutcomes : Synthesize(meta, gem)
    \/ Return

Spec == Init /\ [][Next]_vars

-----------------------------------------------------------------------------
(* refineTranscript and refineBatchWithGemini *)

batchSize == 15

Min(a, b) == IF a < b THEN a ELSE b

IsUnavailableMessage(segment) ==
    "isUnavailableMessage" \in DOMAIN segment /\ segment.isUnavailableMessage

\* {...segment, text: text, original: segment.text}
RefinedSegment(segment, text) ==
    [f \in DOMAIN segment \cup {"original"} |->
        IF f = "text" THEN text
        ELSE IF f = "original" THEN segment.text
        ELSE segment[f]]

\* {...segment, original: segment.text, refinementFailed: true}
FailedSegment(segment) ==
    [f \in DOMAIN segment \cup {"original", "refinementFailed"} |->
        IF f = "original" THEN segment.text
        ELSE IF f = "refinementFailed" THEN TRUE
        ELSE segment[f]]

\* the catch block of refineTranscript
RefinementFailure(t) == [k \in 1..Len(t) |-> FailedSegment(t[k])]

\* the slice stops one segment early
Batch_OneShort(t, i) == SubSeq(t, i + 1, Min(i + batchSize - 1, Len(t)))

\* transcript.slice(i, i + batchSize)
Batch(t, i) == SubSeq(t, i + 1, Min(i + batchSize, Len(t)))

\* the lines `Segment ${index + 1}: "${text}"` of the prompt
Prompt(batchSegments) ==
    [j \in 1..Len(batchSegments) |-> [number |-> j, text |-> batchSegments[j].text]]

\* the corrected wording the generative provider gives for a text
Fixed(text) == <<"F">> \o text

\* What the generative provider does for one batch: the call fails, the reply
\* holds no JSON array, the array does not parse, or it parses to entries
\* {index, refined} numbered from 0, numbered from 1 as the prompt numbers the
\* segments, covering only the even indexes, holding one entry past the batch,
\* holding two entries for index 0, or holding null as its first element.
Failures == {"error", "nojson", "badjson"}

Shapes == {"zero", "one", "evens", "past", "twice", "nullentry"}

ReplyOutcomes == Failures \cup Shapes

Entries(shape, batchSegments) ==
    LET L == Len(batchSegments)
        entry(j, k) == [index |-> k, refined |-> Fixed(batchSegments[j].text)]
        zero == [j \in 1..L |-> entry(j, j - 1)]
    IN  CASE shape = "zero"  -> zero
          [] shape = "one"   -> [j \in 1..L |-> entry(j, j)]
          [] shape = "evens" -> SelectSeq(zero, LAMBDA e : e.index % 2 = 0)
          [] shape = "past"  -> <<[index |-> L, refined |-> Fixed(<<>>)]>>
          [] shape = "twice" -> <<[index |-> 0, refined |-> Fixed(<<"1">>)],
                                  [index |-> 0, refined |-> Fixed(<<"2">>)]>>
          [] OTHER           -> <<>>

\* refinedSegments.find(rs => rs.index === index): 0 when there is none,
\* else the position of the first such entry
Find(refinedSegments, index) ==
    LET S == {k \in 1..Len(refinedSegments) : refinedSegments[k].index = index}
    IN  IF S = {} THEN 0 ELSE CHOOSE k \in S : \A m \in S : k <= m

\* a failed batch is returned empty
refineBatchWithGemini_Drops(batchSegments, outcome) ==
    IF outcome \in Failures \cup {"nullentry"}
    THEN [threw |-> FALSE, value |-> <<>>]
    ELSE LET refinedSegments == Entries(outcome, batchSegments)
         IN  [threw |-> FALSE,
              value |-> [j \in 1..Len(batchSegments) |->
                  LET k == Find(refinedSegments, j - 1)
                  IN  RefinedSegment(batchSegments[j],
                                     IF k # 0 THEN refinedSegments[k].refined
                                     ELSE batchSegments[j].text)]]

\* a failed batch rethrows from its catch block
refineBatchWithGemini_Rethrows(batchSegments, outcome) ==
    IF outcome \in Failures \cup {"nullentry"}
    THEN [threw |-> TRUE, value |-> <<>>]
    ELSE LET refinedSegments == Entries(outcome, batchSegments)
         IN  [threw |-> FALSE,
              value |-> [j \in 1..Len(batchSegments) |->
                  LET k == Find(refinedSegments, j - 1)
                  IN  RefinedSegment(batchSegments[j],
                                     IF k # 0 THEN refinedSegments[k].refined
                                     ELSE batchSegments[j].text)]]

\* refineBatchWithGemini(batchSegments), given what the generative provider
\* does.  Every failure inside its try block ends in its catch block, which
\* returns the batch with original set: it never throws.
refineBatchWithGemini(batchSegments, outcome) ==
    IF outcome \in Failures \cup {"nullentry"}
    THEN [threw |-> FALSE,
          value |-> [j \in 1..Len(batchSegments) |->
                        RefinedSegment(batchSegments[j], batchSegments[j].text)]]
    ELSE LET refinedSegments == Entries(outcome, batchSegments)
         IN  [threw |-> FALSE,
              value |-> [j \in 1..Len(batchSegments) |->
                  LET k == Find(refinedSegments, j - 1)
                  IN  RefinedSegment(batchSegments[j],
                                     IF k # 0 THEN refinedSegments[k].refined
                                     ELSE batchSegments[j].text)]]

\* the placeholder check stands in the full draft and in the alternative provider
SkipsPlaceholder(svc, draft) == svc = "alternative" \/ draft = "full"

Request(t, i) == [offset |-> i, prompt |-> Prompt(Batch(t, i))]

handlerVars == <<pc, req, transcript, transcriptUnavailable, usedAlternativeService,
                 transcriptError, response, calls, nreq>>

\* refineTranscript(transcript) up to its first await
RefineStart ==
    /\ rpc = "start"
    /\ IF Len(rInput) = 0
       THEN /\ rOut' = <<>>
            /\ rpc' = "done"
            /\ UNCHANGED <<geminiModel, rI, refinedTranscript, pending, requests>>
       ELSE IF /\ SkipsPlaceholder(rSvc, originalDraft)
               /\ Len(rInput) = 1
               /\ IsUnavailableMessage(rInput[1])
       THEN /\ rOut' = rInput
            /\ rpc' = "done"
            /\ UNCHANGED <<geminiModel, rI, refinedTranscript, pending, requests>>
       ELSE LET init == IF geminiModel[rSvc] THEN [threw |-> FALSE, ready |-> TRUE]
                        ELSE initializeGeminiAPI(apiKey)
            IN  IF init.threw
                THEN /\ rOut' = RefinementFailure(rInput)
                     /\ rpc' = "done"
                     /\ UNCHANGED <<geminiModel, rI, refinedTranscript, pending, requests>>
                ELSE /\ geminiModel' = [geminiModel EXCEPT ![rSvc] = TRUE]
                     /\ rI' = 0
                     /\ refinedTranscript' = <<>>
                     /\ requests' = Append(requests, Request(rInput, 0))
                     /\ pending' = {0}
                     /\ rpc' = "wait"
                     /\ UNCHANGED rOut
    /\ UNCHANGED pipeVars
    /\ UNCHANGED <<configVars, handlerVars, compVars, rSvc, rInput, replies>>

\* the awaited refineBatchWithGemini settles; the loop goes on to the next
\* await or the function returns
BatchReply(outcome) ==
    /\ rpc = "wait"
    /\ replies' = Append(replies, outcome)
    /\ LET r == refineBatchWithGemini(Batch(rInput, rI), outcome)
           i == rI + batchSize
       IN  IF r.threw
           THEN /\ rOut' = RefinementFailure(rInput)
                /\ rpc' = "done"
                /\ pending' = {}
                /\ UNCHANGED <<rI, refinedTranscript, requests>>
           ELSE /\ refinedTranscript' = refinedTranscript \o r.value
                /\ rI' = i
                /\ IF i < Len(rInput)
                   THEN /\ requests' = Append(requests, Request(rInput, i))
                        /\ pending' = (pending \ {rI}) \cup {i}
                        /\ UNCHANGED <<rpc, rOut>>
                   ELSE /\ rOut' = refinedTranscript'
                        /\ rpc' = "done"
                        /\ pending' = pending \ {rI}
                        /\ UNCHANGED requests
    /\ UNCHANGED pipeVars
    /\ UNCHANGED <<configVars, handlerVars, compVars, geminiModel, rSvc, rInput>>

\* the placeholders generateBasicTranscript returns
Placeholders ==
    { generateBasicTranscript(svc, id, TRUE, TRUE, "title", gem).value :
        svc \in Services, id \in VideoIds, gem \in GenerateOutcomes }

\* one call refineTranscript(rInput) of the module rSvc
InitRefine ==
    /\ controller = "eager"
    /\ altLoadable = TRUE
    /\ production = FALSE
    /\ originalDraft \in {"basic", "full"}
    /\ apiKey \in BOOLEAN
    /\ rSvc \in Services
    /\ rSvc = "alternative" => originalDraft = "full"
    /\ \E ready \in BOOLEAN :
          /\ ready => apiKey
          /\ geminiModel = [m \in Modules |-> m = rSvc /\ ready]
    /\ HandlerIdle
    /\ ComposeIdle
    /\ PipelineIdle
    /\ rInput \in {fetchTranscriptSegments(rSvc, n) : n \in 0..MaxLen} \cup Placeholders
    /\ rpc = "start"
    /\ rI = 0
    /\ refinedTranscript = <<>>
    /\ rOut = <<>>
    /\ pending = {}
    /\ requests = <<>>
    /\ replies = <<>>

NextRefine ==
    \/ RefineStart
    \/ \E outcome \in ReplyOutcomes : BatchReply(outcome)

SpecRefine == InitRefine /\ [][NextRefine]_vars

-----------------------------------------------------------------------------
(* generateBlogFromTranscript *)

minTranscriptChars == 50
minContentChars == 100
maxAttempts == 2
minTitleChars == 3
wordsPerMinute == 200

Whitespace == {" ", "\n", "\t"}

\* F applied to the value of x, which is computed once
Once(F(_), x) == CHOOSE r \in {F(v) : v \in {x}} : TRUE

\* the characters of s from the first one outside `skip` on
DropLeading(s, skip) ==
    LET From(v) ==
            LET keep == {k \in 1..Len(v) : v[k] \notin skip}
            IN  IF keep = {} THEN <<>>
                ELSE SubSeq(v, CHOOSE k \in keep : \A j \in keep : k <= j, Len(v))
    IN  Once(From, s)

TrimStart(s) == DropLeading(s, Whitespace)

TrimEnd(s) ==
    LET Upto(v) ==
            LET keep == {k \in 1..Len(v) : v[k] \notin Whitespace}
            IN  IF keep = {} THEN <<>>
                ELSE SubSeq(v, 1, CHOOSE k \in keep : \A j \in keep : j <= k)
    IN  Once(Upto, s)

\* String.prototype.trim
Trim(s) == TrimEnd(TrimStart(s))

\* transcript.map(segment => segment.text).join(' ')
RECURSIVE FullText(_)
FullText(t) ==
    IF Len(t) = 0 THEN <<>>
    ELSE IF Len(t) = 1 THEN t[1].text
    ELSE t[1].text \o <<" ">> \o FullText(Tail(t))

\* blogContent.split('\n')[0]
FirstLine(s) ==
    LET Line(v) ==
            LET breaks == {k \in 1..Len(v) : v[k] = "\n"}
            IN  IF breaks = {} THEN v
                ELSE SubSeq(v, 1, (CHOOSE k \in breaks : \A j \in breaks : k <= j) - 1)
    IN  Once(Line, s)

DropHashes(s) == DropLeading(s, {"#"})

\* if (title.startsWith('#')) title = title.replace(/^#+\s*/, '')
StripHeading(title) ==
    IF title # <<>> /\ Head(title) = "#" THEN TrimStart(DropHashes(title)) ELSE title

Quotes == {"\"", "'"}

\* title.replace(/^["'](.*)["']$/, '$1')
StripQuotes(title) ==
    IF Len(title) >= 2 /\ title[1] \in Quotes /\ title[Len(title)] \in Quotes
    THEN SubSeq(title, 2, Len(title) - 1)
    ELSE title

\* `Blog Post from YouTube Video (${videoId})`
DefaultTitle(videoId) == <<"B","l","o","g"," ","(">> \o videoId \o <<")">>

\* the title of the Article; the retry draft replaces a title that is empty or
\* shorter than minTitleChars after trimming (videoTitle is '' in every call)
ExtractTitle(draft, content, videoId) ==
    LET title == StripQuotes(StripHeading(FirstLine(content)))
    IN  IF draft = "retry" /\ (title = <<>> \/ Len(Trim(title)) < minTitleChars)
        THEN DefaultTitle(videoId)
        ELSE title

\* blogContent.split(/\s+/).length: one more than the runs of whitespace
WordCount(s) ==
    LET Runs(v) == {k \in 1..Len(v) :
                       v[k] \in Whitespace /\ (k = 1 \/ v[k - 1] \notin Whitespace)}
    IN  1 + Cardinality(Once(Runs, s))

\* Math.ceil(wordCount / 200)
ReadingTimeMinutes(wordCount) == (wordCount + wordsPerMinute - 1) \div wordsPerMinute

Article(draft, content, videoId) ==
    IF draft = "retry"
    THEN [title |-> ExtractTitle(draft, content, videoId), content |-> content,
          videoId |-> videoId, generatedAt |-> "now", wordCount |-> WordCount(content),
          readingTime |-> ReadingTimeMinutes(WordCount(content)), videoTitle |-> <<>>]
    ELSE [title |-> ExtractTitle(draft, content, videoId), content |-> content,
          videoId |-> videoId, generatedAt |-> "now", wordCount |-> WordCount(content)]

\* the outer catch: throw new Error(`Failed to generate blog post: ${error.message}`)
BlogError(detail) == [ok |-> FALSE, error |-> Err("Failed to generate blog post: ", detail)]

\* the checks of the argument before the prompt is built: "" when they pass,
\* else the message thrown.  The basic draft has none.
InputError(draft, t) ==
    IF draft = "basic" THEN ""
    ELSE IF Len(t) = 0 THEN "Invalid or empty transcript provided"
    ELSE IF Len(Trim(FullText(t))) < minTranscriptChars
    THEN "Transcript text is too short to generate a meaningful blog"
    ELSE ""

\* if (!blogContent || blogContent.trim().length < 100)
ContentTooShort(content) == content = <<>> \/ Len(Trim(content)) < minContentChars

\* while (attempts < maxAttempts && !blogContent)
LoopContinues(n, content) == n < maxAttempts /\ content = <<>>

\* What the generative provider does for one generateContent call of the
\* composition: a text, a failure, or no answer within the 30 s of the race.
BlogTexts ==
    { <<>>,
      <<" ", " ">>,
      Rep("b", minContentChars - 1),
      <<"#", " ", "T", "i", "p", "s", "\n">> \o Rep("b", minContentChars),
      <<"\"", "H", "i", "\"", "\n">> \o Rep("b", minContentChars) }

BlogOutcomes == [kind : {"text"}, text : BlogTexts] \cup [kind : {"error", "timeout"}]

\* no timer is raced against the generateContent call
TimeoutArmed_Never(draft) == FALSE

\* the generateContent call is raced against a 30 s timer (the retry draft only)
TimeoutArmed(draft) == draft = "retry"

\* the catch block gives up one attempt later
AttemptsExhausted_Late(n) == n > maxAttempts

\* if (attempts >= maxAttempts) throw
AttemptsExhausted(n) == n >= maxAttempts

\* generateBlogFromTranscript(transcript, videoId) up to its first await
ComposeStart ==
    /\ bpc = "start"
    /\ LET init == IF geminiModel["blog"] THEN [threw |-> FALSE, ready |-> TRUE]
                   ELSE initializeGeminiAPI(apiKey)
           bad == InputError(bDraft, bInput)
       IN  IF init.threw
           THEN /\ bOut' = BlogError(init.error.head)
                /\ bpc' = "done"
                /\ UNCHANGED <<geminiModel, attempts, bRequests>>
           ELSE /\ geminiModel' = [geminiModel EXCEPT !["blog"] = TRUE]
                /\ IF bad # ""
                   THEN /\ bOut' = BlogError(bad)
                        /\ bpc' = "done"
                        /\ UNCHANGED <<attempts, bRequests>>
                   ELSE /\ attempts' = 1
                        /\ bRequests' = bRequests + 1
                        /\ bpc' = "wait"
                        /\ UNCHANGED bOut
    /\ UNCHANGED pipeVars
    /\ UNCHANGED <<configVars, handlerVars, refVars, bDraft, bInput, bVideoId, blogContent,
                   bLog>>

\* the awaited generateContent (raced against the timer in the retry draft) settles
ComposeReply(o) ==
    /\ bpc = "wait"
    /\ o.kind = "timeout" => TimeoutArmed(bDraft)
    /\ bLog' = Append(bLog, o)
    /\ IF bDraft = "basic"
       THEN /\ IF o.kind = "text"
               THEN /\ blogContent' = o.text
                    /\ bOut' = [ok |-> TRUE, article |-> Article(bDraft, o.text, bVideoId)]
               ELSE /\ bOut' = BlogError("upstream error")
                    /\ UNCHANGED blogContent
            /\ bpc' = "done"
       ELSE /\ blogContent' = IF o.kind = "text" THEN o.text ELSE blogContent
            /\ IF o.kind = "text" /\ ~ContentTooShort(o.text)
               THEN /\ bOut' = [ok |-> TRUE, article |-> Article(bDraft, o.text, bVideoId)]
                    /\ bpc' = "done"
               ELSE IF AttemptsExhausted(attempts)
               THEN /\ bOut' = BlogError("Failed to generate blog after 2 attempts")
                    /\ bpc' = "done"
               ELSE /\ bpc' = "backoff"
                    /\ UNCHANGED bOut
    /\ UNCHANGED pipeVars
    /\ UNCHANGED <<configVars, handlerVars, refVars, geminiModel, bDraft, bInput, bVideoId,
                   attempts, bRequests>>

\* the 2 s wait before retrying is over: the loop condition is read again
BackoffElapsed ==
    /\ bpc = "backoff"
    /\ IF LoopContinues(attempts, blogContent)
       THEN /\ attempts' = attempts + 1
            /\ bRequests' = bRequests + 1
            /\ bpc' = "wait"
            /\ UNCHANGED bOut
       ELSE /\ bOut' = [ok |-> TRUE, article |-> Article(bDraft, blogContent, bVideoId)]
            /\ bpc' = "done"
            /\ UNCHANGED <<attempts, bRequests>>
    /\ UNCHANGED pipeVars
    /\ UNCHANGED <<configVars, handlerVars, refVars, geminiModel, bDraft, bInput, bVideoId,
                   blogContent, bLog>>

\* the texts of the segments handed to the composition
BlogInputTexts ==
    { Rep("a", n) : n \in {0, 10, minTranscriptChars \div 2 - 1, minTranscriptChars \div 2,
                           minTranscriptChars - 1, minTranscriptChars} }
    \cup { <<" ">> \o Rep("a", n) \o <<" ">> :
              n \in {minTranscriptChars - 2, minTranscriptChars - 1, minTranscriptChars} }

BlogInputs ==
    UNION { [1..n -> [text : BlogInputTexts, start : {0}, duration : {1}]] : n \in 0..MaxBlogSegs }

\* one call generateBlogFromTranscript(bInput, bVideoId)
InitCompose ==
    /\ controller = "eager"
    /\ altLoadable = TRUE
    /\ production = FALSE
    /\ originalDraft = "basic"
    /\ apiKey \in BOOLEAN
    /\ \E ready \in BOOLEAN :
          /\ ready => apiKey
          /\ geminiModel = [m \in Modules |-> m = "blog" /\ ready]
    /\ HandlerIdle
    /\ RefineIdle
    /\ PipelineIdle
    /\ bDraft \in {"basic", "retry"}
    /\ bInput \in BlogInputs
    /\ bVideoId \in VideoIds
    /\ bpc = "start"
    /\ attempts = 0
    /\ blogContent = <<>>
    /\ bRequests = 0
    /\ bLog = <<>>
    /\ bOut = NoResult

NextCompose ==
    \/ ComposeStart
    \/ \E o \in BlogOutcomes : ComposeReply(o)
    \/ BackoffElapsed

SpecCompose == InitCompose /\ [][NextCompose]_vars

\* the 30 s timer of an attempt fires
AttemptTimesOut == ComposeReply([kind |-> "timeout"])

\* The timers of the event loop fire, and the synchronous start of the call runs:
\* nothing is assumed about the generative provider, which may never answer.
SpecComposeLive ==
    /\ SpecCompose
    /\ WF_vars(ComposeStart)
    /\ WF_vars(AttemptTimesOut)
    /\ WF_vars(BackoffElapsed)

-----------------------------------------------------------------------------
(* getVideoId *)

\* \w
WordChars ==
    { "a", "b", "c", "d", "e", "f", "g", "h", "i", "j", "k", "l", "m", "n", "o",
      "p", "q", "r", "s", "t", "u", "v", "w", "x", "y", "z", "A", "B", "C", "D",
      "E", "F", "G", "H", "I", "J", "K", "L", "M", "N", "O", "P", "Q", "R", "S",
      "T", "U", "V", "W", "X", "Y", "Z", "0", "1", "2", "3", "4", "5", "6", "7",
      "8", "9", "_" }

\* . : any character but a line terminator
Dot(c) == c \notin {"\n", "\r"}

\* the literal lit stands in s at position i
HasAt(s, i, lit) == i + Len(lit) - 1 <= Len(s) /\ SubSeq(s, i, i + Len(lit) - 1) = lit

\* youtu.be\/ stands in s at position i (the . is any character)
YoutuBeAt(s, i) ==
    /\ HasAt(s, i, <<"y", "o", "u", "t", "u">>)
    /\ i + 8 <= Len(s)
    /\ Dot(s[i + 5])
    /\ HasAt(s, i + 6, <<"b", "e", "/">>)

\* the length of the alternative of
\* ((youtu.be\/)|(v\/)|(\/u\/\w\/)|(embed\/)|(watch\?)) that matches s at i, 0 if none
AlternativeAt(s, i) ==
    IF YoutuBeAt(s, i) THEN 9
    ELSE IF HasAt(s, i, <<"v", "/">>) THEN 2
    ELSE IF HasAt(s, i, <<"/", "u", "/">>) /\ i + 4 <= Len(s) /\ s[i + 3] \in WordChars /\ s[i + 4] = "/"
    THEN 5
    ELSE IF HasAt(s, i, <<"e", "m", "b", "e", "d", "/">>) THEN 6
    ELSE IF HasAt(s, i, <<"w", "a", "t", "c", "h", "?">>) THEN 6
    ELSE 0

\* the positions ^.* can end before: the prefix holds no line terminator
Reach(s) == {i \in 1..(Len(s) + 1) : \A j \in 1..(i - 1) : Dot(s[j])}

\* the longest run of [^#&?] in s from position i on
Run(s, i) ==
    LET stops == {k \in i..Len(s) : s[k] \in {"#", "&", "?"}}
        end == IF stops = {} THEN Len(s)
               ELSE (CHOOSE k \in stops : \A j \in stops : k <= j) - 1
    IN  SubSeq(s, i, end)

\* i moved past the character c when it stands at i (an optional, greedy c?)
Skip(s, i, c) == IF i <= Len(s) /\ s[i] = c THEN i + 1 ELSE i

\* url.match(regExpStandard): [ok |-> the regular expression matches, id |-> group 7].
\* The greedy ^.* makes the last place where an alternative stands the match.
MatchStandard(s) ==
    LET at == {i \in Reach(s) : AlternativeAt(s, i) > 0}
    IN  IF at = {} THEN NoId
        ELSE LET i == CHOOSE k \in at : \A j \in at : j <= k
                 from == Skip(s, Skip(s, Skip(s, i + AlternativeAt(s, i), "?"), "v"), "=")
             IN  [ok |-> TRUE, id |-> Run(s, from)]

\* youtube.com\/shorts\/ stands in s at position i (the . is any character)
ShortsAt(s, i) ==
    /\ HasAt(s, i, <<"y", "o", "u", "t", "u", "b", "e">>)
    /\ i + 18 <= Len(s)
    /\ Dot(s[i + 7])
    /\ HasAt(s, i + 8, <<"c", "o", "m", "/", "s", "h", "o", "r", "t", "s", "/">>)

\* url.match(regExpShort): [ok |-> the regular expression matches, id |-> group 3]
MatchShort(s) ==
    LET at == {i \in Reach(s) : ShortsAt(s, i)}
    IN  IF at = {} THEN NoId
        ELSE LET i == CHOOSE k \in at : \A j \in at : j <= k
             IN  [ok |-> TRUE, id |-> Run(s, i + 19)]

\* the identifier has the length the standard match accepts
idLength == 11

\* if (matchShort && matchShort[3])
ShortAccepted(id) == id # <<>>

\* getVideoId(url) of transcriptService.js
getVideoId(url) ==
    LET matchStandard == MatchStandard(url)
        matchShort == MatchShort(url)
    IN  IF url = <<>> THEN NoId
        ELSE IF matchStandard.ok /\ Len(matchStandard.id) = idLength THEN matchStandard
        ELSE IF matchShort.ok /\ ShortAccepted(matchShort.id) THEN matchShort
        ELSE NoId

\* getVideoId(url) of the worker (index.ts): the standard expression only
getVideoIdWorker(url) ==
    LET match == MatchStandard(url)
    IN  IF match.ok /\ Len(match.id) = idLength THEN match ELSE NoId

\* The urls handed to getVideoId: a head, an identifier, a tail.
CanonicalHeads ==
    { <<"h", "t", "t", "p", "s", ":", "/", "/", "w", "w", "w", ".", "y", "o", "u", "t", "u", "b", "e", ".", "c", "o", "m", "/", "w", "a", "t", "c", "h", "?", "v", "=">>,
      <<"h", "t", "t", "p", "s", ":", "/", "/", "y", "o", "u", "t", "u", ".", "b", "e", "/">>,
      <<"h", "t", "t", "p", "s", ":", "/", "/", "w", "w", "w", ".", "y", "o", "u", "t", "u", "b", "e", ".", "c", "o", "m", "/", "v", "/">>,
      <<"h", "t", "t", "p", "s", ":", "/", "/", "w", "w", "w", ".", "y", "o", "u", "t", "u", "b", "e", ".", "c", "o", "m", "/", "e", "m", "b", "e", "d", "/">>,
      <<"h", "t", "t", "p", "s", ":", "/", "/", "w", "w", "w", ".", "y", "o", "u", "t", "u", "b", "e", ".", "c", "o", "m", "/", "u", "/", "1", "/">> }

ShortsHead == <<"h", "t", "t", "p", "s", ":", "/", "/", "w", "w", "w", ".", "y", "o", "u", "t", "u", "b", "e", ".", "c", "o", "m", "/", "s", "h", "o", "r", "t", "s", "/">>

OtherHeads ==
    { <<"h", "t", "t", "p", "s", ":", "/", "/", "e", "x", "a", "m", "p", "l", "e", ".", "c", "o", "m", "/">>,
      <<>>,
      <<"h", "t", "t", "p", "s", ":", "/", "/", "w", "w", "w", ".", "y", "o", "u", "t", "u", "b", "e", ".", "c", "o", "m", "/", "w", "a", "t", "c", "h", "?", "f", "e", "a", "t", "u", "r", "e", "=", "s", "h", "a", "r", "e", "&", "v", "=">>,
      <<"h", "t", "t", "p", "s", ":", "/", "/", "w", "w", "w", ".", "y", "o", "u", "t", "u", "b", "e", ".", "c", "o", "m", "/", "u", "/", "a", "b", "/">> }

ValidIds ==
    { <<"d", "Q", "w", "4", "w", "9", "W", "g", "X", "c", "Q">>,
      <<"v", "1", "2", "3", "4", "5", "6", "7", "8", "9", "0">> }

OtherIds == { <<>>, <<"a", "b", "c">>, <<"d", "Q", "w", "4", "w", "9", "W", "g", "X", "c", "Q", "1">> }

Tails == { <<>>, <<"&", "t", "=", "1", "0", "s">>, <<"?", "s", "i", "=", "a", "b", "c">>, <<"#", "t", "=", "1">> }

ExtractUrls ==
    { h \o id \o t : h \in CanonicalHeads \cup {ShortsHead} \cup OtherHeads,
                     id \in ValidIds \cup OtherIds, t \in Tails }

\* one call getVideoId(xUrl) of one of the two implementations
InitExtract ==
    /\ controller = "eager"
    /\ altLoadable = TRUE
    /\ production = FALSE
    /\ originalDraft = "basic"
    /\ apiKey = TRUE
    /\ geminiModel = [m \in Modules |-> FALSE]
    /\ HandlerIdle
    /\ RefineIdle
    /\ ComposeIdle
    /\ CacheIdle
    /\ handlers = [h \in Handlers |-> IdleHandler]
    /\ fetch = FetchIdle
    /\ xImpl \in {"service", "worker"}
    /\ xUrl \in ExtractUrls
    /\ xpc = "start"
    /\ xOut = NoId

Extract ==
    /\ xpc = "start"
    /\ xOut' = IF xImpl = "service" THEN getVideoId(xUrl) ELSE getVideoIdWorker(xUrl)
    /\ xpc' = "done"
    /\ UNCHANGED <<procVars, refVars, compVars, cacheVars, handlers, fetch, xImpl, xUrl>>

NextExtract == Extract

SpecExtract == InitExtract /\ [][NextExtract]_vars

-----------------------------------------------------------------------------
(* combinedCache: new NodeCache({ stdTTL, checkperiod }) *)

stdTTL == 3600       \* seconds an entry lives (CACHE_TTL unset)
checkperiod == 120   \* seconds between two sweeps

\* an entry stored without a ttl never expires
Wrap_NoExpiry(v, t) == [v |-> v, t |-> 0]

\* the entry set(key, v) stores at time t: no ttl is passed, so stdTTL applies
Wrap(v, t) == [v |-> v, t |-> t + stdTTL]

\* the entry is past its time at time t (t = 0 marks an entry that never expires)
Expired(entry, t) == entry.t # 0 /\ entry.t < t

CacheDel(cache, k) == [x \in (DOMAIN cache) \ {k} |-> cache[x]]

\* combinedCache.set(k, v) at time t: the cache afterwards
CacheSet(cache, k, v, t) ==
    [x \in (DOMAIN cache) \cup {k} |-> IF x = k THEN Wrap(v, t) ELSE cache[x]]

\* combinedCache.get(k) at time t: the value returned
CacheGet(cache, k, t) ==
    IF k \in DOMAIN cache /\ ~Expired(cache[k], t)
    THEN [hit |-> TRUE, v |-> cache[k].v]
    ELSE Miss

\* combinedCache.get(k) at time t: the cache afterwards (an expired entry is deleted)
CacheAfterGet(cache, k, t) ==
    IF k \in DOMAIN cache /\ Expired(cache[k], t) THEN CacheDel(cache, k) ELSE cache

\* the periodic check at time t: the cache afterwards
CacheSweep(cache, t) ==
    [x \in {k \in DOMAIN cache : ~Expired(cache[k], t)} |-> cache[x]]

\* the last set of key k, as the history keeps it
Stored(k, v, t, by) ==
    [x \in (DOMAIN lastSet) \cup {k} |->
        IF x = k THEN [v |-> v, at |-> t, by |-> by] ELSE lastSet[x]]

\* what a get of key k at time t is remembered as
Lookup(k, t) ==
    [key |-> k, at |-> t, result |-> CacheGet(combinedCache, k, t),
     set |-> k \in DOMAIN lastSet,
     evicted |-> k \in DOMAIN combinedCache /\ Expired(combinedCache[k], t),
     last |-> IF k \in DOMAIN lastSet THEN lastSet[k] ELSE [v |-> <<>>, at |-> 0, by |-> 0]]

\* the clock advances by d seconds
TimeSteps == {1, checkperiod, stdTTL - 1}

Tick(d) ==
    /\ ticks < MaxTicks
    /\ ticks' = ticks + 1
    /\ now' = now + d
    /\ UNCHANGED <<procVars, refVars, compVars, extractVars, fetch, combinedCache, lastSet, got,
                   handlers>>

\* the timer of the cache fires: expired entries are deleted
Sweep ==
    /\ combinedCache' = CacheSweep(combinedCache, now)
    /\ UNCHANGED <<procVars, refVars, compVars, extractVars, fetch, now, ticks, lastSet, got,
                   handlers>>

\* The keys and values of the cache taken alone.
CacheKeys == { <<"c", "o", "m", "b", "i", "n", "e", "d", "-", "a">>, <<"c", "o", "m", "b", "i", "n", "e", "d", "-", "b">> }

CacheValues == { [videoId |-> <<"a">>, raw |-> 1], [videoId |-> <<"a">>, raw |-> 2] }

\* combinedCache.set(k, v)
Set(k, v) ==
    /\ combinedCache' = CacheSet(combinedCache, k, v, now)
    /\ lastSet' = Stored(k, v, now, 0)
    /\ UNCHANGED <<procVars, refVars, compVars, extractVars, fetch, now, ticks, got, handlers>>

\* combinedCache.get(k)
Get(k) ==
    /\ got' = Lookup(k, now)
    /\ combinedCache' = CacheAfterGet(combinedCache, k, now)
    /\ UNCHANGED <<procVars, refVars, compVars, extractVars, fetch, now, ticks, lastSet, handlers>>

InitCache ==
    /\ controller = "eager"
    /\ altLoadable = TRUE
    /\ production = FALSE
    /\ originalDraft = "basic"
    /\ apiKey = TRUE
    /\ geminiModel = [m \in Modules |-> FALSE]
    /\ HandlerIdle
    /\ RefineIdle
    /\ ComposeIdle
    /\ PipelineIdle

NextCache ==
    \/ \E k \in CacheKeys, v \in CacheValues : Set(k, v)
    \/ \E k \in CacheKeys : Get(k)
    \/ \E d \in TimeSteps : Tick(d)
    \/ Sweep

SpecCache == InitCache /\ [][NextCache]_vars

-----------------------------------------------------------------------------
(* processYouTubeUrl: the request body and the cache key *)

\* a field of the JSON body: absent, a boolean or a string
Undefined == [type |-> "undefined"]
JBool(b) == [type |-> "boolean", b |-> b]
JStr(s) == [type |-> "string", s |-> s]

\* `name = d` in the destructuring: the default stands in for undefined only
Default(v, d) == IF v = Undefined THEN d ELSE v

\* the value as a condition: if (v), !v, v ? a : b
Truthy(v) == CASE v.type = "boolean" -> v.b
               [] v.type = "string"  -> v.s # <<>>
               [] v.type \in {"array", "object"} -> TRUE
               [] OTHER              -> FALSE

\* the value inside a template literal: `${v}`
Interpolated(v) == CASE v.type = "boolean" -> (IF v.b THEN <<"t", "r", "u", "e">> ELSE <<"f", "a", "l", "s", "e">>)
                 [] v.type = "string"  -> v.s
                 [] OTHER              -> <<"u", "n", "d", "e", "f", "i", "n", "e", "d">>

\* const { url, language = 'en', skipRefinement = false, generateBlog = true,
\*         fallbackMessage = true, debug = false, preferAlternativeService = false } = req.body
Options(body) ==
    [debug                    |-> Default(body.debug, JBool(FALSE)),
     language                 |-> Default(body.language, JStr(<<"e", "n">>)),
     skipRefinement           |-> Default(body.skipRefinement, JBool(FALSE)),
     generateBlog             |-> Default(body.generateBlog, JBool(TRUE)),
     fallbackMessage          |-> Default(body.fallbackMessage, JBool(TRUE)),
     preferAlternativeService |-> Default(body.preferAlternativeService, JBool(FALSE))]

\* the key with the options the older handler does not read
CacheKey_FourParts(c, videoId, o) ==
    <<"c", "o", "m", "b", "i", "n", "e", "d", "-">> \o videoId \o <<"-">> \o Interpolated(o.language)
        \o <<"-">> \o Interpolated(o.skipRefinement) \o <<"-">> \o Interpolated(o.generateBlog)

\* getTranscript: skipRefinement ? `raw-${videoId}-${language}` : `refined-${videoId}-${language}`
TranscriptKey(videoId, o) ==
    (IF Truthy(o.skipRefinement) THEN <<"r", "a", "w", "-">> ELSE <<"r", "e", "f", "i", "n", "e", "d", "-">>)
        \o videoId \o <<"-">> \o Interpolated(o.language)

\* `combined-${videoId}-${language}-${skipRefinement}-${generateBlog}-${fallbackMessage}-${preferAlternativeService}`;
\* the handler that reads four options builds the key from those four
CacheKey(c, videoId, o) ==
    IF c = "transcript" THEN TranscriptKey(videoId, o)
    ELSE IF c = "single" THEN CacheKey_FourParts(c, videoId, o)
    ELSE CacheKey_FourParts(c, videoId, o)
             \o <<"-">> \o Interpolated(o.fallbackMessage)
             \o <<"-">> \o Interpolated(o.preferAlternativeService)

\* what the handler does with the options: each flag as the conditions read it
Effective(c, videoId, o) ==
    [videoId                  |-> videoId,
     language                 |-> Interpolated(o.language),
     skipRefinement           |-> Truthy(o.skipRefinement),
     generateBlog             |-> c # "transcript" /\ Truthy(o.generateBlog),
     fallbackMessage          |-> c \in {"eager", "lazy"} /\ Truthy(o.fallbackMessage),
     preferAlternativeService |-> c \in {"eager", "lazy"}
                                     /\ Truthy(o.preferAlternativeService)]

\* a request body: the url and the options given
Body(url, language, skip, gen, fb, prefer) ==
    [url |-> url, language |-> language, skipRefinement |-> skip, generateBlog |-> gen,
     fallbackMessage |-> fb, preferAlternativeService |-> prefer, debug |-> Undefined]

\* the same request with debug: true
Debugging(body) == [body EXCEPT !.debug = JBool(TRUE)]

\* a url getVideoId finds the identifier dQw4w9WgXcQ in, and one it finds none in
TheVideo == JStr(<<"h", "t", "t", "p", "s", ":", "/", "/", "w", "w", "w", ".", "y", "o", "u", "t", "u", "b", "e", ".", "c", "o", "m", "/", "w", "a", "t", "c", "h", "?", "v", "=", "d", "Q", "w", "4", "w", "9", "W", "g", "X", "c", "Q">>)

NoVideo == JStr(<<"h", "t", "t", "p", "s", ":", "/", "/", "e", "x", "a", "m", "p", "l", "e", ".", "c", "o", "m", "/", "w", "a", "t", "c", "h">>)

PipelineBodies ==
    { Body(TheVideo, Undefined, Undefined, Undefined, Undefined, Undefined),
      Body(TheVideo, Undefined, JBool(TRUE), Undefined, Undefined, Undefined),
      Body(TheVideo, Undefined, JStr(<<"f", "a", "l", "s", "e">>), Undefined, Undefined, Undefined),
      Body(TheVideo, Undefined, Undefined, JBool(FALSE), Undefined, Undefined),
      Body(TheVideo, JStr(<<"d", "e">>), Undefined, Undefined, JBool(FALSE), JBool(TRUE)),
      Debugging(Body(TheVideo, Undefined, Undefined, Undefined, Undefined, Undefined)),
      Body(NoVideo, Undefined, Undefined, Undefined, Undefined, Undefined),
      Body(JStr(<<>>), Undefined, Undefined, Undefined, Undefined, Undefined),
      Body(JBool(TRUE), Undefined, Undefined, Undefined, Undefined, Undefined),
      Body(Undefined, Undefined, Undefined, Undefined, Undefined, Undefined) }

-----------------------------------------------------------------------------
(* processYouTubeUrl: the stages after the acquisition *)

\* null, and a value that is not null
Null == [null |-> TRUE]
Some(v) == [null |-> FALSE, value |-> v]

\* refineTranscript(transcript) of a provider as one call, for a transcript of
\* one batch: the value returned, the module's geminiModel afterwards, and the
\* prompts sent to the generative provider
refineTranscript(svc, draft, t, ready, key, outcome) ==
    IF Len(t) = 0 THEN [value |-> <<>>, ready |-> ready, requests |-> 0]
    ELSE IF SkipsPlaceholder(svc, draft) /\ Len(t) = 1 /\ IsUnavailableMessage(t[1])
    THEN [value |-> t, ready |-> ready, requests |-> 0]
    ELSE LET init == IF ready THEN [threw |-> FALSE, ready |-> TRUE]
                     ELSE initializeGeminiAPI(key)
         IN  IF init.threw
             THEN [value |-> RefinementFailure(t), ready |-> FALSE, requests |-> 0]
             ELSE LET r == refineBatchWithGemini(Batch(t, 0), outcome)
                  IN  [value |-> IF r.threw THEN RefinementFailure(t) ELSE r.value,
                       ready |-> TRUE, requests |-> 1]

\* generateBlogFromTranscript(transcript, videoId) of blogGeneratorService as
\* one call: the Article returned or the Error thrown
generateBlogFromTranscript(t, videoId, ready, key, o) ==
    LET init == IF ready THEN [threw |-> FALSE, ready |-> TRUE]
                ELSE initializeGeminiAPI(key)
    IN  IF init.threw
        THEN [ok |-> FALSE, error |-> BlogError(init.error.head).error, ready |-> FALSE,
              requests |-> 0]
        ELSE IF o.kind = "text"
        THEN [ok |-> TRUE, article |-> Article("basic", o.text, videoId), ready |-> TRUE,
              requests |-> 1]
        ELSE [ok |-> FALSE, error |-> BlogError("upstream error").error, ready |-> TRUE,
              requests |-> 1]

\* the refinement stage runs on a placeholder as well
RefinementWanted_Placeholder(skipRefinement, unavailable) == ~Truthy(skipRefinement)

\* the refinement stage runs although the request asks to skip it
RefinementWanted_Always(skipRefinement, unavailable) == ~unavailable

\* if (!skipRefinement && !transcriptUnavailable)
RefinementWanted(skipRefinement, unavailable) == ~Truthy(skipRefinement) /\ ~unavailable

\* if (!generateBlog) { .. return }
BlogWanted(generateBlog) == Truthy(generateBlog)

\* const refinementService = usedAlternativeService ? alternativeService : originalService
RefinementService(c, usedAlternative) ==
    IF c \in {"eager", "lazy"} /\ usedAlternative THEN "alternative" ELSE "original"

\* the composition always reads the raw transcript
TranscriptToUse_Raw(refined, raw) == raw

\* const transcriptToUse = refinedTranscript || transcript
TranscriptToUse(refined, raw) == IF refined = Null THEN raw ELSE refined.value

\* { ...o, name: v }
With(o, name, v) == [f \in DOMAIN o \cup {name} |-> IF f = name THEN v ELSE o[f]]

\* const transcriptResult = { videoId, raw, refined, transcriptUnavailable, usedAlternativeService };
\* getTranscript: { videoId, transcript } without the refinement, { videoId, raw, refined } with it
TranscriptResult(c, r) ==
    IF c = "transcript"
    THEN IF Truthy(r.opts.skipRefinement)
         THEN [videoId |-> r.videoId,
               transcript |-> [k \in 1..Len(r.transcript) |->
                                  With(r.transcript[k], "original", r.transcript[k].text)]]
         ELSE [videoId |-> r.videoId, raw |-> r.transcript, refined |-> r.refinedTranscript]
    ELSE IF c = "single"
    THEN [videoId |-> r.videoId, raw |-> r.transcript, refined |-> r.refinedTranscript]
    ELSE [videoId |-> r.videoId, raw |-> r.transcript, refined |-> r.refinedTranscript,
          transcriptUnavailable |-> r.transcriptUnavailable,
          usedAlternativeService |-> r.usedAlternativeService]

\* blog.note = ".." when the blog was composed from a placeholder
Blog(article, unavailable) ==
    IF unavailable THEN With(article, "note", "generated without an actual video transcript")
    ELSE article

\* const result = { success: true, ...transcriptResult, [blog,] processingTime }
\* at time t; the older handler adds the blog only
Result(c, r, blog, t) ==
    LET base == IF blog = Null THEN TranscriptResult(c, r)
                ELSE With(TranscriptResult(c, r), "blog", blog.value)
    IN  IF c \in {"single", "transcript"} THEN base
        ELSE With(With(base, "success", TRUE), "processingTime", t - r.startTime)

\* what a response carries besides its status
Reply(status, body) == [status |-> status, body |-> body]

\* the cached result is answered without the cached mark
CachedReply_Unmarked(c, cachedResult) == Reply(200, cachedResult)

\* res.json({ success: true, ...cachedResult, cached: true }); res.json(cachedResult)
\* in the older handler
CachedReply(c, cachedResult) ==
    IF c \in {"single", "transcript"} THEN Reply(200, cachedResult)
    ELSE Reply(200, With(With(cachedResult, "success", TRUE), "cached", TRUE))

\* res.status(500).json({ success: false, error: 'Blog generation failed', message, transcript })
BlogFailed(error, transcriptResult) ==
    Reply(500, [success |-> FALSE, error |-> "Blog generation failed", message |-> error,
                transcript |-> transcriptResult])

\* error.message === 'Transcript not available'
NotAvailable(error) == error = Err("Transcript not available", "")

\* errorHandler behind next(error)
ErrorHandled(error, prod) ==
    Reply(500, [error |-> IF prod THEN Err("An unexpected error occurred", "") ELSE error])

\* the catch block of getTranscript and of the handler that reads four options
Caught(error, prod) ==
    IF NotAvailable(error)
    THEN Reply(404, [error |-> "Transcript not available for this video"])
    ELSE ErrorHandled(error, prod)

\* the body of a response built by the handlers of the acquisition
Json(r) == [f \in (DOMAIN r) \ {"status"} |-> r[f]]

\* the lookup never counts as a hit
Hit_Never(result) == FALSE

\* if (cachedResult)
Hit(result) == result.hit

\* a partial result is stored: the blog is left out
Cacheable_Partial(result) == [f \in (DOMAIN result) \ {"blog"} |-> result[f]]

\* combinedCache.set(cacheKey, result): the value stored
Cacheable(result) == result

-----------------------------------------------------------------------------
(* processYouTubeUrl: requests in flight over the shared cache *)

pipeFrame == <<configVars, handlerVars, refVars, compVars, extractVars, fetch>>

\* the locals of a request that has just been read
Locals(o, videoId) ==
    [pc |-> "Responded", opts |-> o, videoId |-> videoId, cacheKey |-> <<>>,
     lookup |-> NoGet, startTime |-> 0, transcript |-> <<>>,
     transcriptUnavailable |-> FALSE, usedAlternativeService |-> FALSE,
     transcriptError |-> NoError, refinedTranscript |-> Null, blogArg |-> Null, blog |-> Null,
     refineRequests |-> 0, composeRequests |-> 0, response |-> NoResponse,
     outcomes |-> 0,
     events |-> <<>>, stored |-> FALSE, storedAt |-> 0]

\* getVideoId(url) for any value of the body: url.match of a value that is no
\* string throws inside the try block, whose catch block returns null
getVideoIdOf(url) == IF url.type = "string" THEN getVideoId(url.s) ELSE NoId

\* the handler goes on without an identifier
IdMissing_Never(videoId) == FALSE

\* if (!videoId)
IdMissing(videoId) == ~videoId.ok

\* return res.status(400).json(..)
Rejected(c, error, message) ==
    IF c \in {"single", "transcript"} THEN Reply(400, [error |-> error])
    ELSE Reply(400, Json(BadRequest(error, message)))

\* combinedCache.set(cacheKey, result); return res.json(result)
Finish(h, r, blog) ==
    LET result == Result(controller, r, blog, now)
    IN  /\ combinedCache' = CacheSet(combinedCache, r.cacheKey, Cacheable(result), now)
        /\ lastSet' = Stored(r.cacheKey, Cacheable(result), now, h)
        /\ handlers' = [handlers EXCEPT ![h] =
               [r EXCEPT !.pc = "Responded", !.response = Reply(200, result),
                         !.outcomes = @ + 1,
                         !.events = Append(r.events, "set"), !.stored = TRUE,
                         !.storedAt = now, !.blog = blog]]

\* the handler returns without answering
Respond_Silent(h, r, reply) ==
    /\ handlers' = [handlers EXCEPT ![h] = [r EXCEPT !.pc = "Responded"]]
    /\ UNCHANGED <<combinedCache, lastSet>>

\* the handler stores the body of the response it fails with
Respond_Stores(h, r, reply) ==
    /\ handlers' = [handlers EXCEPT ![h] =
           [r EXCEPT !.pc = "Responded", !.response = reply, !.outcomes = @ + 1]]
    /\ combinedCache' = CacheSet(combinedCache, r.cacheKey, reply.body, now)
    /\ UNCHANGED lastSet

\* the handler fails or answers without storing
Respond(h, r, reply) ==
    /\ handlers' = [handlers EXCEPT ![h] =
           [r EXCEPT !.pc = "Responded", !.response = reply, !.outcomes = @ + 1]]
    /\ UNCHANGED <<combinedCache, lastSet>>

\* the handler fetches the transcript again instead of going on
Composition_StartsOver(h, r) ==
    /\ handlers' = [handlers EXCEPT ![h] = [r EXCEPT !.pc = "TryPrimary"]]
    /\ UNCHANGED <<combinedCache, lastSet>>

\* the handler gives up when the refinement has marked its segments as failed
Composition_FailsUnrefined(h, r) ==
    IF /\ r.refinedTranscript # Null
       /\ \E k \in 1..Len(r.refinedTranscript.value) :
              "refinementFailed" \in DOMAIN r.refinedTranscript.value[k]
    THEN Respond(h, r, ErrorHandled(Err("Refinement failed", ""), production))
    ELSE IF controller = "transcript" \/ ~BlogWanted(r.opts.generateBlog) THEN Finish(h, r, Null)
    ELSE /\ handlers' = [handlers EXCEPT ![h] =
                [r EXCEPT !.pc = "Compose",
                          !.blogArg = Some(TranscriptToUse(r.refinedTranscript, r.transcript)),
                          !.events = Append(r.events, "compose")]]
         /\ UNCHANGED <<combinedCache, lastSet>>

\* from the transcript result on: answer without a blog, or call the composition
Composition(h, r) ==
    IF controller = "transcript" \/ ~BlogWanted(r.opts.generateBlog) THEN Finish(h, r, Null)
    ELSE /\ handlers' = [handlers EXCEPT ![h] =
                [r EXCEPT !.pc = "Compose",
                          !.blogArg = Some(TranscriptToUse(r.refinedTranscript, r.transcript)),
                          !.events = Append(r.events, "compose")]]
         /\ UNCHANGED <<combinedCache, lastSet>>

\* from the acquired transcript on: call the refinement, or go on without it
Refinement(h, r) ==
    IF RefinementWanted(r.opts.skipRefinement, r.transcriptUnavailable)
    THEN /\ handlers' = [handlers EXCEPT ![h] =
                [r EXCEPT !.pc = "Refine", !.events = Append(r.events, "refine")]]
         /\ UNCHANGED <<combinedCache, lastSet>>
    ELSE Composition(h, r)

\* if (debug), if (debug && debugTranscriptIssue): the handlers that read the option
DebugMode(c, o) == c \in {"eager", "lazy"} /\ Truthy(o.debug)

\* res.json({ success: true, debug: true, debugInfo })
DebugReply(videoId) == Reply(200, [success |-> TRUE, debug |-> TRUE, debugInfo |-> videoId])

\* from the cache key on: answer from the cache, or call the first provider
Process(h, r) ==
    LET c == controller
        key == CacheKey(c, r.videoId, r.opts)
        look == Lookup(key, now)
    IN  /\ combinedCache' = CacheAfterGet(combinedCache, key, now)
        /\ lastSet' = lastSet
        /\ handlers' = [handlers EXCEPT ![h] =
               IF Hit(look.result)
               THEN [r EXCEPT !.pc = "Responded", !.cacheKey = key, !.lookup = look,
                              !.events = <<"extract", "get">>,
                              !.response = CachedReply(c, look.result.v),
                              !.outcomes = @ + 1]
               ELSE [r EXCEPT !.pc = "TryPrimary", !.cacheKey = key, !.lookup = look,
                              !.startTime = now,
                              !.events = <<"extract", "get", "fetch">>]]

\* a request arrives: the handler runs up to its first await.  The slots are
\* taken in the order of arrival.
Arrive(h, body) ==
    /\ handlers[h].pc = "Idle"
    /\ \A g \in Handlers : g < h => handlers[g].pc # "Idle"
    /\ LET c == controller
           o == Options(body)
           extracted == getVideoIdOf(body.url)
           videoId == extracted.id
           r == Locals(o, IF Truthy(body.url) THEN videoId ELSE <<>>)
       IN  IF ~Truthy(body.url)
           THEN Respond(h, r, Rejected(c, "YouTube URL is required",
                                       "Please provide a valid YouTube URL in the request body"))
           ELSE IF IdMissing(extracted)
           THEN Respond(h, [r EXCEPT !.events = <<"extract">>],
                        Rejected(c, "Invalid YouTube URL",
                                 "Could not extract a valid YouTube video ID from the provided URL"))
           ELSE IF DebugMode(c, o)
           THEN /\ handlers' = [handlers EXCEPT ![h] =
                       [r EXCEPT !.pc = "Debug", !.events = <<"extract">>]]
                /\ UNCHANGED <<combinedCache, lastSet>>
           ELSE Process(h, r)
    /\ UNCHANGED <<pipeFrame, geminiModel, now, ticks, got>>

\* the awaited debugTranscriptIssue settles: its report is the response, or
\* its Error is logged and the handler goes on as without debug
DebugSettles(h, ok) ==
    /\ handlers[h].pc = "Debug"
    /\ IF ok THEN Respond(h, handlers[h], DebugReply(handlers[h].videoId))
       ELSE Process(h, handlers[h])
    /\ UNCHANGED <<pipeFrame, geminiModel, now, ticks, got>>

\* the first fetchTranscript settles
PrimarySettles(h, u) ==
    /\ handlers[h].pc = "TryPrimary"
    /\ LET c == controller
           r == handlers[h]
           prefer == Truthy(r.opts.preferAlternativeService)
           one == c \in {"single", "transcript"}
           p == IF one THEN "original" ELSE PrimaryService(c, prefer, altLoadable)
           s == IF one THEN "none" ELSE SecondaryService(c, prefer, altLoadable)
           f == fetchTranscript(p, DraftOf(p), u)
       IN  IF f.ok
           THEN Refinement(h, [r EXCEPT !.transcript = f.value,
                   !.usedAlternativeService =
                       ~one /\ UsedAlternativeAfterPrimary(c, prefer, altLoadable)])
           ELSE IF one
           THEN Respond(h, [r EXCEPT !.transcriptError = f.error], Caught(f.error, production))
           ELSE IF s # "none"
           THEN /\ handlers' = [handlers EXCEPT ![h] =
                       [r EXCEPT !.pc = "TrySecondary", !.transcriptError = f.error,
                                 !.events = Append(r.events, "fetch")]]
                /\ UNCHANGED <<combinedCache, lastSet>>
           ELSE IF Truthy(r.opts.fallbackMessage)
           THEN /\ handlers' = [handlers EXCEPT ![h] =
                       [r EXCEPT !.pc = "Synthesize", !.transcriptError = f.error,
                                 !.events = Append(r.events, "placeholder")]]
                /\ UNCHANGED <<combinedCache, lastSet>>
           ELSE Respond(h, [r EXCEPT !.transcriptError = f.error],
                        Reply(404, Json(TranscriptUnavailableResponse(f.error, NoError,
                                                                      r.videoId))))
    /\ UNCHANGED <<pipeFrame, geminiModel, now, ticks, got>>

\* the second fetchTranscript settles
SecondarySettles(h, u) ==
    /\ handlers[h].pc = "TrySecondary"
    /\ LET c == controller
           r == handlers[h]
           prefer == Truthy(r.opts.preferAlternativeService)
           s == SecondaryService(c, prefer, altLoadable)
           f == fetchTranscript(s, DraftOf(s), u)
       IN  IF f.ok
           THEN Refinement(h, [r EXCEPT !.transcript = f.value,
                   !.usedAlternativeService =
                       (IF UsedAlternativeAfterSecondary(c, prefer, altLoadable)
                        THEN TRUE ELSE r.usedAlternativeService)])
           ELSE IF Truthy(r.opts.fallbackMessage)
           THEN /\ handlers' = [handlers EXCEPT ![h] =
                       [r EXCEPT !.pc = "Synthesize",
                                 !.events = Append(r.events, "placeholder")]]
                /\ UNCHANGED <<combinedCache, lastSet>>
           ELSE Respond(h, r, Reply(404, Json(TranscriptUnavailableResponse(
                                                  r.transcriptError, f.error, r.videoId))))
    /\ UNCHANGED <<pipeFrame, geminiModel, now, ticks, got>>

\* generateBasicTranscript settles
PlaceholderSettles(h, meta, gem) ==
    /\ handlers[h].pc = "Synthesize"
    /\ LET c == controller
           r == handlers[h]
           prefer == Truthy(r.opts.preferAlternativeService)
           f == FallbackService(c, prefer, altLoadable)
           g == generateBasicTranscript(f, r.videoId, geminiModel[f], apiKey, meta, gem)
       IN  /\ geminiModel' = [geminiModel EXCEPT ![f] = g.ready]
           /\ IF g.threw
              THEN Respond(h, r, Reply(500, Json(ProcessingFailed(g.error, production))))
              ELSE Refinement(h, [r EXCEPT !.transcript = g.value,
                                           !.transcriptUnavailable = TRUE])
    /\ UNCHANGED <<configVars, pc, req, transcript, transcriptUnavailable,
                   usedAlternativeService, transcriptError, response, calls, nreq,
                   refVars, compVars, extractVars, fetch, now, ticks, got>>

\* refinementService.refineTranscript(transcript) settles
RefineSettles(h, outcome) ==
    /\ handlers[h].pc = "Refine"
    /\ LET r == handlers[h]
           svc == RefinementService(controller, r.usedAlternativeService)
           x == refineTranscript(svc, DraftOf(svc), r.transcript, geminiModel[svc], apiKey,
                                 outcome)
       IN  /\ geminiModel' = [geminiModel EXCEPT ![svc] = x.ready]
           /\ Composition(h, [r EXCEPT !.refinedTranscript = Some(x.value),
                                       !.refineRequests = r.refineRequests + x.requests])
    /\ UNCHANGED <<configVars, pc, req, transcript, transcriptUnavailable,
                   usedAlternativeService, transcriptError, response, calls, nreq,
                   refVars, compVars, extractVars, fetch, now, ticks, got>>

\* generateBlogFromTranscript(transcriptToUse, videoId) settles
ComposeSettles(h, o) ==
    /\ handlers[h].pc = "Compose"
    /\ LET c == controller
           r == handlers[h]
           g == generateBlogFromTranscript(r.blogArg.value, r.videoId, geminiModel["blog"],
                                           apiKey, o)
           q == [r EXCEPT !.composeRequests = r.composeRequests + g.requests]
       IN  /\ geminiModel' = [geminiModel EXCEPT !["blog"] = g.ready]
           /\ IF g.ok THEN Finish(h, q, Some(Blog(g.article, r.transcriptUnavailable)))
              ELSE IF c = "single" THEN Respond(h, q, Caught(g.error, production))
              ELSE Respond(h, q, BlogFailed(g.error, TranscriptResult(c, r)))
    /\ UNCHANGED <<configVars, pc, req, transcript, transcriptUnavailable,
                   usedAlternativeService, transcriptError, response, calls, nreq,
                   refVars, compVars, extractVars, fetch, now, ticks, got>>

\* what the upstreams and the generative provider do for the requests in flight
PipelineUpstream == { [ok |-> TRUE, n |-> 1], [ok |-> FALSE, cause |-> "disabled"] }

PipelinePlaceholders == { [ok |-> FALSE] }

PipelineReplies == {"error", "zero"}

PipelineBlogs ==
    { [kind |-> "text", text |-> <<"#", " ", "T", "i", "p", "s", "\n", "b">>],
      [kind |-> "error"] }

\* the clock step of the requests in flight: the lifetime of an entry, so that
\* an entry is still served one step after it was stored and is expired after two
PipelineSteps == {stdTTL}

PipelineTick(d) == ticks < MaxPipelineTicks /\ Tick(d)

\* the process with one of the handlers mounted, before the first request
InitPipeline ==
    /\ controller \in {"eager", "lazy", "single"}
    /\ originalDraft = (IF controller = "single" THEN "basic" ELSE "full")
    /\ altLoadable = TRUE
    /\ apiKey \in BOOLEAN
    /\ production = FALSE
    /\ geminiModel = [m \in Modules |-> FALSE]
    /\ HandlerIdle
    /\ RefineIdle
    /\ ComposeIdle
    /\ PipelineIdle

NextPipeline ==
    \/ \E h \in Handlers, body \in PipelineBodies : Arrive(h, body)
    \/ \E h \in Handlers, ok \in BOOLEAN : DebugSettles(h, ok)
    \/ \E h \in Handlers, u \in PipelineUpstream : PrimarySettles(h, u)
    \/ \E h \in Handlers, u \in PipelineUpstream : SecondarySettles(h, u)
    \/ \E h \in Handlers, gem \in PipelinePlaceholders : PlaceholderSettles(h, "title", gem)
    \/ \E h \in Handlers, outcome \in PipelineReplies : RefineSettles(h, outcome)
    \/ \E h \in Handlers, o \in PipelineBlogs : ComposeSettles(h, o)
    \/ \E d \in PipelineSteps : PipelineTick(d)
    \/ Sweep

SpecPipeline == InitPipeline /\ [][NextPipeline]_vars

\* the requests alone, the clock standing still
NextRequests ==
    \/ \E h \in Handlers, body \in PipelineBodies : Arrive(h, body)
    \/ \E h \in Handlers, ok \in BOOLEAN : DebugSettles(h, ok)
    \/ \E h \in Handlers, u \in PipelineUpstream : PrimarySettles(h, u)
    \/ \E h \in Handlers, u \in PipelineUpstream : SecondarySettles(h, u)
    \/ \E h \in Handlers, gem \in PipelinePlaceholders : PlaceholderSettles(h, "title", gem)
    \/ \E h \in Handlers, outcome \in PipelineReplies : RefineSettles(h, outcome)
    \/ \E h \in Handlers, o \in PipelineBlogs : ComposeSettles(h, o)

\* every call to the video platform and every refinement request returns or fails
UpstreamReturns ==
    \A h \in Handlers :
        /\ WF_vars(\E ok \in BOOLEAN : DebugSettles(h, ok))
        /\ WF_vars(\E u \in PipelineUpstream : PrimarySettles(h, u))
        /\ WF_vars(\E u \in PipelineUpstream : SecondarySettles(h, u))
        /\ WF_vars(\E outcome \in PipelineReplies : RefineSettles(h, outcome))

\* every request for a placeholder and for a blog returns or fails: no timer
\* bounds generateBasicTranscript or generateBlogFromTranscript of blogGeneratorService
GenerativeReturns ==
    \A h \in Handlers :
        /\ WF_vars(\E gem \in PipelinePlaceholders : PlaceholderSettles(h, "title", gem))
        /\ WF_vars(\E o \in PipelineBlogs : ComposeSettles(h, o))

\* the requests to /api/process when the listed upstream calls return
SpecPipelineLive == InitPipeline /\ [][NextRequests]_vars /\ UpstreamReturns

\* the process with getTranscript mounted, before the first request; its
\* transcriptCache is a NodeCache of the same options
InitTranscript ==
    /\ controller = "transcript"
    /\ originalDraft = "basic"
    /\ altLoadable = TRUE
    /\ apiKey \in BOOLEAN
    /\ production = FALSE
    /\ geminiModel = [m \in Modules |-> FALSE]
    /\ HandlerIdle
    /\ RefineIdle
    /\ ComposeIdle
    /\ PipelineIdle

\* the handlers of /api/process and of /api/transcript
SpecHandlers == (InitPipeline \/ InitTranscript) /\ [][NextPipeline]_vars

-----------------------------------------------------------------------------
(* generateBlog: POST /api/blog over its blogCache *)

JArray(v) == [type |-> "array", v |-> v]

\* the object { raw, refined } the transcript endpoints answer with
JObject(raw, refined) == [type |-> "object", raw |-> raw, refined |-> refined]

\* const { transcript, videoId, useRefined = true } = req.body
BlogBody(transcriptData, videoId, useRefined) ==
    [transcript |-> transcriptData, videoId |-> videoId,
     useRefined |-> Default(useRefined, JBool(TRUE))]

\* useRefined && transcript.refined ? transcript.refined : (transcript.raw || transcript)
TranscriptData(body) ==
    IF body.transcript.type = "object"
    THEN IF Truthy(body.useRefined) /\ body.transcript.refined # Null
         THEN body.transcript.refined.value
         ELSE body.transcript.raw
    ELSE body.transcript.v

\* `blog-${videoId}-${useRefined ? 'refined' : 'raw'}`
BlogKey(videoId, useRefined) ==
    <<"b", "l", "o", "g", "-">> \o Interpolated(videoId) \o <<"-">>
        \o (IF Truthy(useRefined) THEN <<"r", "e", "f", "i", "n", "e", "d">> ELSE <<"r", "a", "w">>)

\* a request to /api/blog arrives: the handler runs up to its first await
BlogArrive(h, body) ==
    /\ handlers[h].pc = "Idle"
    /\ \A g \in Handlers : g < h => handlers[g].pc # "Idle"
    /\ LET r == Locals(body, Interpolated(body.videoId))
           key == BlogKey(body.videoId, body.useRefined)
           look == Lookup(key, now)
       IN  IF ~Truthy(body.transcript) \/ ~Truthy(body.videoId)
           THEN Respond(h, r, Reply(400, [error |-> "Both transcript data and videoId are required"]))
           ELSE /\ combinedCache' = CacheAfterGet(combinedCache, key, now)
                /\ lastSet' = lastSet
                /\ handlers' = [handlers EXCEPT ![h] =
                       IF Hit(look.result)
                       THEN [r EXCEPT !.cacheKey = key, !.lookup = look, !.events = <<"get">>,
                                      !.response = Reply(200, look.result.v),
                                      !.outcomes = @ + 1]
                       ELSE [r EXCEPT !.pc = "BlogCompose", !.cacheKey = key, !.lookup = look,
                                      !.blogArg = Some(TranscriptData(body)),
                                      !.events = <<"get", "compose">>]]
    /\ UNCHANGED <<pipeFrame, geminiModel, now, ticks, got>>

\* the awaited generateBlogFromTranscript(transcriptData, videoId) settles
BlogSettles(h, o) ==
    /\ handlers[h].pc = "BlogCompose"
    /\ LET r == handlers[h]
           g == generateBlogFromTranscript(r.blogArg.value, r.videoId, geminiModel["blog"],
                                           apiKey, o)
           q == [r EXCEPT !.composeRequests = r.composeRequests + g.requests]
       IN  /\ geminiModel' = [geminiModel EXCEPT !["blog"] = g.ready]
           /\ IF g.ok
              THEN /\ combinedCache' = CacheSet(combinedCache, r.cacheKey, g.article, now)
                   /\ lastSet' = Stored(r.cacheKey, g.article, now, h)
                   /\ handlers' = [handlers EXCEPT ![h] =
                          [q EXCEPT !.pc = "Responded", !.response = Reply(200, g.article),
                                    !.outcomes = @ + 1,
                                    !.events = Append(r.events, "set"), !.stored = TRUE,
                                    !.storedAt = now, !.blog = Some(g.article)]]
              ELSE Respond(h, q, ErrorHandled(g.error, production))
    /\ UNCHANGED <<configVars, pc, req, transcript, transcriptUnavailable,
                   usedAlternativeService, transcriptError, response, calls, nreq,
                   refVars, compVars, extractVars, fetch, now, ticks, got>>

\* the transcripts the requests to /api/blog carry
BlogTranscripts ==
    { Undefined,
      JArray(fetchTranscriptSegments("original", 1)),
      JArray(fetchTranscriptSegments("original", 2)),
      JObject(fetchTranscriptSegments("original", 1), Null),
      JObject(fetchTranscriptSegments("original", 2),
              Some(RefinementFailure(fetchTranscriptSegments("original", 2)))) }

BlogBodies ==
    { BlogBody(t, v, u) :
        t \in BlogTranscripts,
        v \in {Undefined, JStr(<<"d", "Q", "w", "4", "w", "9", "W", "g", "X", "c", "Q">>)},
        u \in {Undefined, JBool(FALSE)} }

\* the process with generateBlog mounted, before the first request; its
\* blogCache is a NodeCache of the same options
InitBlog ==
    /\ controller = "blog"
    /\ originalDraft = "basic"
    /\ altLoadable = TRUE
    /\ apiKey \in BOOLEAN
    /\ production = FALSE
    /\ geminiModel = [m \in Modules |-> FALSE]
    /\ HandlerIdle
    /\ RefineIdle
    /\ ComposeIdle
    /\ PipelineIdle

NextBlog ==
    \/ \E h \in Handlers, body \in BlogBodies : BlogArrive(h, body)
    \/ \E h \in Handlers, o \in PipelineBlogs : BlogSettles(h, o)
    \/ \E d \in PipelineSteps : PipelineTick(d)
    \/ Sweep

SpecBlog == InitBlog /\ [][NextBlog]_vars

-----------------------------------------------------------------------------
(* Transcript providers: fetchTranscript step by step *)

StartsWith(s, p) == Len(s) >= Len(p) /\ SubSeq(s, 1, Len(p)) = p

English == <<"e", "n">>

Languages == { English, <<"d", "e">> }

\* the options of one YoutubeTranscript.fetchTranscript call; <<>> = not given
Permutation(lang, country) == [lang |-> lang, country |-> country]

\* the calls of the strategies 1 to 4 of the full draft; the basic draft has the first only
Strategies(draft, language) ==
    IF draft = "basic" THEN << Permutation(language, <<>>) >>
    ELSE << Permutation(language, <<>>), Permutation(<<>>, <<>>), Permutation(English, <<>>),
            Permutation(language, <<"U", "S">>) >>

\* What one YoutubeTranscript.fetchTranscript call does: a list of n items, or
\* an Error whose message the catch block tells apart.
StrategyOutcomes ==
    [ok : {TRUE}, n : {0, 1}] \cup
    [ok : {FALSE}, cause : {"disabled", "unavailable", "nolang", "other"}]

\* the language codes of the caption tracks of a video
TrackCodes == { English, <<"e", "n", "-", "U", "S">>, <<"d", "e">>, <<"d", "e", "-", "A", "T">>, <<"f", "r">> }

TrackLists == UNION { [1..n -> TrackCodes] : n \in 0..MaxTracks }

\* What youtube.getInfo does: the caption tracks, or an Error.
InfoOutcomes ==
    [ok : {TRUE}, tracks : TrackLists] \cup [ok : {FALSE}, cause : {"unavailable", "other"}]

\* What youtube.getCaption does: a body of n items, or an Error.
CaptionOutcomes == [ok : {TRUE}, n : {0, 1}] \cup [ok : {FALSE}, cause : {"other"}]

\* track.language_code === language || track.language_code.startsWith(language + '-')
TrackMatches(code, language) == code = language \/ StartsWith(code, language \o <<"-">>)

\* captionTracks.find(track => ..): the index of the first match, 0 for undefined
FindTrack(tracks, language) ==
    LET found == {i \in 1..Len(tracks) : TrackMatches(tracks[i], language)}
    IN  IF found = {} THEN 0 ELSE CHOOSE i \in found : \A j \in found : i <= j

\* selectedTrack of the alternative provider, for a track list that is not empty
SelectTrack(tracks, language) ==
    LET requested == FindTrack(tracks, language)
        english == IF requested = 0 /\ language # English
                   THEN FindTrack(tracks, English) ELSE requested
    IN  IF english # 0 THEN english ELSE 1

\* the Error fetchTranscript throws for a cause, and the cause kept with it
FetchFailure(svc, draft, cause) ==
    [ok |-> FALSE, cause |-> cause, error |-> fetchTranscriptError(svc, draft, cause)]

\* the call has returned or thrown
Settled(out) == [fetch EXCEPT !.pc = "done", !.out = out]

\* checkVideoAvailability (basic draft) or checkVideoInfo (full draft) settles
FetchProbe(exists) ==
    /\ fetch.pc = "probe"
    /\ fetch' = IF exists THEN [fetch EXCEPT !.pc = "strategy"]
                ELSE Settled(FetchFailure("original", fetch.draft, "probe"))
    /\ UNCHANGED <<procVars, refVars, compVars, extractVars, cacheVars, handlers>>

\* the awaited YoutubeTranscript.fetchTranscript of the next strategy settles
FetchStrategy(u) ==
    /\ fetch.pc = "strategy"
    /\ LET all == Strategies(fetch.draft, fetch.language)
           k == Len(fetch.tried) + 1
           f == [fetch EXCEPT !.tried = Append(fetch.tried, all[k])]
           first == IF fetch.fetchError = "" THEN u.cause ELSE fetch.fetchError
       IN  fetch' =
             IF u.ok
             THEN IF u.n > 0
                  THEN [f EXCEPT !.pc = "done",
                                 !.out = [ok |-> TRUE,
                                          value |-> fetchTranscriptSegments("original", u.n)]]
                  ELSE [f EXCEPT !.pc = "done",
                                 !.out = FetchFailure("original", fetch.draft, "empty")]
             ELSE IF k < Len(all)
             THEN [f EXCEPT !.fetchError = first]
             ELSE [f EXCEPT !.pc = "done", !.fetchError = first,
                            !.out = FetchFailure("original", fetch.draft, first)]
    /\ UNCHANGED <<procVars, refVars, compVars, extractVars, cacheVars, handlers>>

\* the awaited youtube.getInfo of the alternative provider settles
FetchInfo(o) ==
    /\ fetch.pc = "info"
    /\ fetch' =
         IF ~o.ok THEN Settled(FetchFailure("alternative", "alternative", o.cause))
         ELSE IF Len(o.tracks) = 0
         THEN [fetch EXCEPT !.pc = "done", !.listed = TRUE,
                            !.out = FetchFailure("alternative", "alternative", "nocaptions")]
         ELSE [fetch EXCEPT !.pc = "caption", !.listed = TRUE, !.tracks = o.tracks,
                            !.selected = SelectTrack(o.tracks, fetch.language)]
    /\ UNCHANGED <<procVars, refVars, compVars, extractVars, cacheVars, handlers>>

\* the awaited youtube.getCaption of the alternative provider settles
FetchCaption(o) ==
    /\ fetch.pc = "caption"
    /\ fetch' =
         IF ~o.ok THEN Settled(FetchFailure("alternative", "alternative", o.cause))
         ELSE IF o.n = 0 THEN Settled(FetchFailure("alternative", "alternative", "empty"))
         ELSE Settled([ok |-> TRUE,
                       value |-> [i \in 1..o.n |->
                                     [text |-> Caption(i), start |-> i - 1, duration |-> 1,
                                      language |-> fetch.tracks[fetch.selected]]]])
    /\ UNCHANGED <<procVars, refVars, compVars, extractVars, cacheVars, handlers>>

\* one call fetchTranscript(videoId, language) of one of the providers
InitFetch ==
    /\ controller = "eager"
    /\ altLoadable = TRUE
    /\ production = FALSE
    /\ originalDraft = "basic"
    /\ apiKey = TRUE
    /\ geminiModel = [m \in Modules |-> FALSE]
    /\ HandlerIdle
    /\ RefineIdle
    /\ ComposeIdle
    /\ ExtractIdle
    /\ CacheIdle
    /\ handlers = [h \in Handlers |-> IdleHandler]
    /\ \E draft \in {"basic", "full", "alternative"}, language \in Languages :
          fetch = [pc |-> IF draft = "alternative" THEN "info" ELSE "probe",
                   draft |-> draft, language |-> language, tried |-> <<>>,
                   fetchError |-> "", listed |-> FALSE, tracks |-> <<>>, selected |-> 0,
                   out |-> NoResult]

NextFetch ==
    \/ \E exists \in BOOLEAN : FetchProbe(exists)
    \/ \E u \in StrategyOutcomes : FetchStrategy(u)
    \/ \E o \in InfoOutcomes : FetchInfo(o)
    \/ \E o \in CaptionOutcomes : FetchCaption(o)

SpecFetch == InitFetch /\ [][NextFetch]_vars

-----------------------------------------------------------------------------
(* Alternative provider: getYouTubeClient under overlapping calls *)

\* let youtubeClient = null: 0 is null, k > 0 the client of the k-th Innertube.create()
NoClient == 0

\* no call of getYouTubeClient is being made by this caller
IdleCaller == [pc |-> "idle", mine |-> 0, got |-> NoClient, calls |-> 0]

\* getYouTubeClient() up to its await: if (!youtubeClient) Innertube.create() is
\* invoked, else the client is returned
ClientCall(h) ==
    /\ fetch.callers[h].pc \in {"idle", "returned", "threw"}
    /\ fetch.callers[h].calls < MaxClientCalls
    /\ LET c == [fetch.callers[h] EXCEPT !.calls = @ + 1]
       IN  fetch' =
             IF fetch.youtubeClient = NoClient
             THEN [fetch EXCEPT !.created = @ + 1,
                                !.callers[h] = [c EXCEPT !.pc = "creating",
                                                         !.mine = fetch.created + 1,
                                                         !.got = NoClient]]
             ELSE [fetch EXCEPT !.callers[h] = [c EXCEPT !.pc = "returned",
                                                         !.got = fetch.youtubeClient]]
    /\ UNCHANGED <<procVars, refVars, compVars, extractVars, cacheVars, handlers>>

\* the awaited Innertube.create() settles: youtubeClient is assigned and
\* returned, or the catch block throws and leaves it as it is
ClientCreated(h, ok) ==
    /\ fetch.callers[h].pc = "creating"
    /\ fetch' =
         IF ok
         THEN [fetch EXCEPT !.youtubeClient = fetch.callers[h].mine,
                            !.callers[h].pc = "returned",
                            !.callers[h].got = fetch.callers[h].mine]
         ELSE [fetch EXCEPT !.failed = @ + 1, !.callers[h].pc = "threw"]
    /\ UNCHANGED <<procVars, refVars, compVars, extractVars, cacheVars, handlers>>

\* the module after it was loaded, before the first fetchTranscript
InitClient ==
    /\ controller = "eager"
    /\ altLoadable = TRUE
    /\ production = FALSE
    /\ originalDraft = "full"
    /\ apiKey = TRUE
    /\ geminiModel = [m \in Modules |-> FALSE]
    /\ HandlerIdle
    /\ RefineIdle
    /\ ComposeIdle
    /\ ExtractIdle
    /\ CacheIdle
    /\ handlers = [h \in Handlers |-> IdleHandler]
    /\ fetch = [pc |-> "client", youtubeClient |-> NoClient, created |-> 0, failed |-> 0,
                callers |-> [h \in Handlers |-> IdleCaller]]

NextClient ==
    \/ \E h \in Handlers : ClientCall(h)
    \/ \E h \in Handlers, ok \in BOOLEAN : ClientCreated(h, ok)

SpecClient == InitClient /\ [][NextClient]_vars

-----------------------------------------------------------------------------
(* Properties of the acquisition, checked under Spec *)

Range(f) == {f[k] : k \in DOMAIN f}

Fetched(k) == Len(calls) >= k /\ calls[k].fn = "fetchTranscript"

FetchFailed(k) == Fetched(k) /\ ~calls[k].result.ok

FetchReturned(k) == Fetched(k) /\ calls[k].result.ok

AcquisitionDone == pc \in {"Acquired", "Responded"}

IsPlaceholder(t) == Len(t) = 1 /\ IsUnavailableMessage(t[1])

\* C1: whenever both providers' fetchTranscript failed and fallbackMessage is
\* true, the acquisition ends with a transcript of exactly one segment with
\* non-empty text, marked as a placeholder (transcriptUnavailable = true), and
\* with no error response, whatever the metadata lookup, the generative
\* provider and the configuration do.
C1_PlaceholderAlways ==
    (FetchFailed(1) /\ FetchFailed(2) /\ req.fallbackMessage /\ AcquisitionDone) =>
        /\ pc = "Acquired"
        /\ response = NoResponse
        /\ transcriptUnavailable
        /\ IsPlaceholder(transcript)
        /\ Len(transcript[1].text) > 0

\* C2: every call of generateBasicTranscript returns, without throwing, a
\* transcript of exactly one segment with isUnavailableMessage = true, also
\* when the API key is missing.
C2_GenerateBasicTranscriptSucceeds ==
    \A k \in 1..Len(calls) :
        calls[k].fn = "generateBasicTranscript" =>
            /\ ~calls[k].result.threw
            /\ IsPlaceholder(calls[k].result.value)

\* C3: when fallbackMessage is false and both providers' fetchTranscript
\* failed, the handler has answered 404 with success = false and a message
\* that carries the message of the provider tried first; nothing else (no
\* 500 of the outer catch) is produced.
C3_PrimaryMessageReported ==
    (FetchFailed(1) /\ FetchFailed(2) /\ ~req.fallbackMessage) =>
        /\ pc = "Responded"
        /\ response.status = 404
        /\ response.success = FALSE
        /\ response.message.head = "Unable to retrieve transcript: "
        /\ response.message.inner = calls[1].result.error
        /\ Len(calls) = 2

C3_Witness ==
    /\ FetchFailed(1) /\ FetchFailed(2) /\ ~req.fallbackMessage
    /\ calls[1].result.error # calls[2].result.error
    /\ response.status = 404

\* C4 as claimed: whenever the primary's fetchTranscript failed and the
\* secondary's returned, the transcript is the secondary's, it is no
\* placeholder, and usedAlternativeService is true, for both values of
\* preferAlternativeService.
C4_UsedAlternativeAlways ==
    (FetchFailed(1) /\ FetchReturned(2)) =>
        /\ pc = "Acquired"
        /\ transcript = calls[2].result.value
        /\ ~transcriptUnavailable
        /\ usedAlternativeService

\* C4 as amended: whenever the primary's fetchTranscript failed and the
\* secondary's returned, the transcript is exactly the secondary's segments, it
\* is no placeholder, and usedAlternativeService is true exactly when the
\* secondary is the alternative provider, that is when preferAlternativeService
\* is false.
C4_SecondaryTranscriptReturned ==
    (FetchFailed(1) /\ FetchReturned(2)) =>
        /\ pc = "Acquired"
        /\ response = NoResponse
        /\ transcript = calls[2].result.value
        /\ Len(transcript) > 0
        /\ ~transcriptUnavailable
        /\ usedAlternativeService = (calls[2].svc = "alternative")
        /\ usedAlternativeService = ~req.preferAlternativeService

C4_Witness ==
    /\ FetchFailed(1) /\ FetchReturned(2)
    /\ Len(transcript) = 3
    /\ req.preferAlternativeService
    /\ ~usedAlternativeService

\* C5: whenever the primary's fetchTranscript returned, it is the only provider
\* call of the request (no fetchTranscript of the secondary, no
\* generateBasicTranscript), the transcript is the primary's, and
\* usedAlternativeService is true exactly when the primary is the alternative
\* provider.
C5_PrimarySuccessIsFinal ==
    FetchReturned(1) =>
        /\ Len(calls) = 1
        /\ pc = "Acquired"
        /\ response = NoResponse
        /\ transcript = calls[1].result.value
        /\ ~transcriptUnavailable
        /\ calls[1].svc = PrimaryService(controller, req.preferAlternativeService, altLoadable)
        /\ usedAlternativeService = (calls[1].svc = "alternative")

C5_Witness ==
    /\ FetchReturned(1)
    /\ usedAlternativeService
    /\ Len(transcript) > 1

-----------------------------------------------------------------------------
(* Properties of refineTranscript, checked under SpecRefine *)

NumBatches(n) == (n + batchSize - 1) \div batchSize

Flagged(segment) == "refinementFailed" \in DOMAIN segment /\ segment.refinementFailed

\* the reply to the batch that holds the k-th segment
ReplyFor(k) == replies[((k - 1) \div batchSize) + 1]

\* the k-th segment got no corrected text: its batch failed or its index is
\* absent from the reply
Unrefined(k) ==
    LET i == ((k - 1) \div batchSize) * batchSize
    IN  \/ ReplyFor(k) \in Failures \cup {"nullentry"}
        \/ Find(Entries(ReplyFor(k), Batch(rInput, i)), k - 1 - i) = 0

LoopFinished == rpc = "done" /\ Len(replies) > 0

\* C6: for every non-empty transcript that is no placeholder, and every pattern
\* of replies and failures, the transcript returned has as many segments as
\* the input, and its i-th segment keeps the i-th input segment's start and
\* duration and carries its text as original.
C6_NoSegmentDroppedOrReordered ==
    (rpc = "done" /\ Len(rInput) > 0 /\ ~IsPlaceholder(rInput)) =>
        /\ Len(rOut) = Len(rInput)
        /\ \A k \in 1..Len(rInput) :
              /\ rOut[k].start = rInput[k].start
              /\ rOut[k].duration = rInput[k].duration
              /\ rOut[k].original = rInput[k].text

C6_Witness ==
    /\ rpc = "done"
    /\ Len(rInput) > 2 * batchSize
    /\ "error" \in Range(replies)
    /\ "evens" \in Range(replies)
    /\ Len(rOut) = Len(rInput)

\* C7: in the transcript returned, every segment whose index is absent from
\* the reply and every segment of a batch that failed keeps its text and has
\* refinementFailed = true, and the segments that were refined are not flagged.
C7_UnrefinedSegmentsFlagged ==
    LoopFinished =>
        \A k \in 1..Len(rInput) :
            IF Unrefined(k)
            THEN rOut[k].text = rInput[k].text /\ Flagged(rOut[k])
            ELSE ~Flagged(rOut[k])

\* C8: at most one refinement request is in flight; the request for batch k+1
\* is sent only after batch k's request has settled; the requests go out in
\* batch order; and a batch that failed is followed by the request for the next
\* batch, so that when the loop has run every batch had its request.
C8_BatchesSequentialAndIndependent ==
    /\ Cardinality(pending) <= 1
    /\ Len(requests) = Len(replies) + Cardinality(pending)
    /\ \A k \in 1..Len(requests) : requests[k].offset = (k - 1) * batchSize
    /\ \A k \in 1..Len(replies) :
          (replies[k] \in Failures /\ k < NumBatches(Len(rInput))) => Len(requests) > k
    /\ (rpc = "done" /\ Len(requests) > 0) => Len(requests) = NumBatches(Len(rInput))

C8_Witness ==
    /\ rpc = "done"
    /\ Len(requests) = 3
    /\ replies[1] = "error"
    /\ replies[2] = "badjson"

\* C9: refineTranscript of every provider returns a placeholder unchanged
\* without calling the generative provider, and returns [] for an empty
\* transcript.
C9_PlaceholderUnchanged ==
    rpc = "done" =>
        /\ IsPlaceholder(rInput) => (rOut = rInput /\ requests = <<>>)
        /\ Len(rInput) = 0 => (rOut = <<>> /\ requests = <<>>)

-----------------------------------------------------------------------------
(* Properties of generateBlogFromTranscript, checked under SpecCompose *)

TooShortInput == Len(Trim(FullText(bInput))) < minTranscriptChars

\* C10: whenever the concatenated text of a transcript (with the API key
\* configured and at least one segment) is under the minimum character
\* threshold, the call fails with the input-too-short error, returns no
\* Article and makes no request to the generative provider.
C10_ShortInputRejected ==
    (TooShortInput /\ Len(bInput) > 0 /\ apiKey) =>
        /\ bRequests = 0
        /\ bpc \in {"start", "done"}
        /\ bpc = "done" =>
              /\ ~bOut.ok
              /\ bOut.error.detail = "Transcript text is too short to generate a meaningful blog"

\* the attempt that settled as o counts as failed: a rejection, the timer, or a
\* text that is empty or under minContentChars after trimming
AttemptFailed(o) == o.kind # "text" \/ ContentTooShort(o.text)

ComposeReturned == bpc = "done" /\ bRequests >= 1

\* C11: in the retry loop a response that is empty or under 100 characters
\* after trimming is a failed attempt: when it is the first attempt a second
\* one is made, and no Article carries such a response as its content.
C11_ShortResponseNeverReturned ==
    (bDraft = "retry" /\ ComposeReturned) =>
        /\ bOut.ok => ~ContentTooShort(bOut.article.content)
        /\ AttemptFailed(bLog[1]) => Len(bLog) = maxAttempts

\* C12: one call makes at most 2 requests to the generative provider, makes
\* the second only after the first attempt failed, and ends with the
\* composition error exactly when both attempts failed.
C12_AtMostTwoAttempts ==
    bDraft = "retry" =>
        /\ bRequests <= maxAttempts
        /\ Len(bLog) <= bRequests
        /\ bRequests = 2 => Len(bLog) >= 1 /\ AttemptFailed(bLog[1])
        /\ ComposeReturned =>
              (~bOut.ok <=> (Len(bLog) = 2 /\ AttemptFailed(bLog[1]) /\ AttemptFailed(bLog[2])))

\* a call that ended with the composition error after two failed attempts
C12_Witness ==
    /\ bDraft = "retry"
    /\ ComposeReturned
    /\ bRequests = 2
    /\ ~bOut.ok
    /\ bLog[1].kind = "error"
    /\ bLog[2].kind = "text"

\* C13: every attempt is bounded by the 30 s timer, so the call returns (an
\* Article or an error) even when the generative provider never answers.
C13_ComposeTerminates == (bDraft = "retry") => <>(bpc = "done")

\* both attempts ended by the timer and the call returned an error
C13_Witness ==
    /\ bDraft = "retry"
    /\ bpc = "done"
    /\ Len(bLog) = 2
    /\ \A k \in 1..2 : bLog[k].kind = "timeout"
    /\ ~bOut.ok

-----------------------------------------------------------------------------
(* Properties of getVideoId, checked under SpecExtract *)

Found(id) == [ok |-> TRUE, id |-> id]

\* C20: getVideoId returns the 11-character identifier of every url of the
\* accepted shapes (watch?v=, youtu.be/, /v/, /embed/, /u/<n>/, shorts), and
\* null for every string of none of these shapes.
C20_IdentifierExtracted ==
    xpc = "done" =>
        /\ \A h \in CanonicalHeads \cup {ShortsHead}, id \in ValidIds, t \in Tails :
              xUrl = h \o id \o t => xOut = Found(id)
        /\ \A h \in {<<>>, <<"h", "t", "t", "p", "s", ":", "/", "/", "e", "x", "a", "m", "p", "l", "e", ".", "c", "o", "m", "/">>}, id \in ValidIds \cup OtherIds, t \in Tails :
              xUrl = h \o id \o t => xOut = NoId

-----------------------------------------------------------------------------
(* Properties of the cache, checked under SpecCache *)

\* seconds between the last set of the key of the last get and that get
Elapsed == got.at - got.last.at

\* C14: after set(k, v), a get(k) made before the TTL has elapsed returns v,
\* and a get(k) made after the TTL has elapsed returns a miss, whether or not
\* the sweep has run in between.
C14_CacheRoundTrip ==
    (got.at > 0 /\ got.set) =>
        /\ Elapsed < stdTTL => got.result = [hit |-> TRUE, v |-> got.last.v]
        /\ Elapsed > stdTTL => got.result = Miss

\* a get after the TTL has elapsed that finds the expired entry still stored
\* (no sweep has removed it) and misses
C14_Witness ==
    /\ got.at > 0 /\ got.set
    /\ Elapsed > stdTTL
    /\ got.result = Miss
    /\ got.key \in DOMAIN combinedCache => ~Expired(combinedCache[got.key], got.at)
    /\ \E k \in DOMAIN combinedCache : k # got.key /\ Expired(combinedCache[k], now)

-----------------------------------------------------------------------------
(* Properties of the requests in flight, checked under SpecPipeline *)

\* the handler of slot h has read its request and built its cache key
Keyed(h) == handlers[h].pc # "Idle" /\ handlers[h].cacheKey # <<>>

\* C15: two requests that differ in the video identifier, in the language or in
\* the effective value of skipRefinement, generateBlog, fallbackMessage or
\* preferAlternativeService never get the same cache key.
C15_KeysNeverCollide ==
    \A g, h \in Handlers :
        (Keyed(g) /\ Keyed(h) /\ handlers[g].cacheKey = handlers[h].cacheKey)
            => Effective(controller, handlers[g].videoId, handlers[g].opts)
                   = Effective(controller, handlers[h].videoId, handlers[h].opts)

\* the entry stored at time t is still served at the present time
Live(t) == now <= t + stdTTL

\* the handler of slot h has looked its key up
Looked(h) == Keyed(h) /\ handlers[h].lookup.key = handlers[h].cacheKey

\* the handler of slot h answered from the cache and ran no stage
ServedFromCache(h) ==
    /\ handlers[h].pc = "Responded"
    /\ handlers[h].response = CachedReply(controller, handlers[h].lookup.last.v)
    /\ handlers[h].events = <<"extract", "get">>
    /\ ~handlers[h].stored
    /\ handlers[h].refineRequests = 0
    /\ handlers[h].composeRequests = 0

\* the handler of slot h computes its answer from the first stage on
Recomputes(h) ==
    /\ SubSeq(handlers[h].events, 1, 3) = <<"extract", "get", "fetch">>
    /\ handlers[h].startTime = handlers[h].lookup.at

\* C16 as stated: once a handler has stored a value under a key, a get of that
\* key returns that same value until the entry expires.
C16_StoredValueServedUntilExpiry ==
    \A h \in Handlers :
        (Keyed(h) /\ handlers[h].stored /\ Live(handlers[h].storedAt))
            => CacheGet(combinedCache, handlers[h].cacheKey, now)
                   = [hit |-> TRUE, v |-> handlers[h].response.body]

\* C16 (amended): an entry is replaced only as a whole by a later set of its
\* key: a get returns the value of the latest set of the key until that entry
\* expires, and a request either is answered from the unexpired entry of the
\* latest set, running no stage, or misses and recomputes from the first stage.
C16_LatestSetServedUntilExpiry ==
    /\ \A k \in DOMAIN lastSet :
          Live(lastSet[k].at)
              => CacheGet(combinedCache, k, now) = [hit |-> TRUE, v |-> lastSet[k].v]
    /\ \A h \in Handlers :
          Looked(h) =>
              LET look == handlers[h].lookup
              IN  IF look.set /\ look.at <= look.last.at + stdTTL
                  THEN look.result = [hit |-> TRUE, v |-> look.last.v] /\ ServedFromCache(h)
                  ELSE look.result = Miss /\ Recomputes(h)

\* a repeated request is answered from an entry stored a lifetime earlier
C16_Witness ==
    \E h \in Handlers :
        /\ Looked(h)
        /\ handlers[h].lookup.result.hit
        /\ handlers[h].lookup.at = handlers[h].lookup.last.at + stdTTL
        /\ ServedFromCache(h)

\* the payload of the run of slot h, from the locals of that run alone
OwnPayload(h) == Result(controller, handlers[h], handlers[h].blog, handlers[h].storedAt)

\* the requests of both slots had the same key and missed before either stored
Overlapped(g, h) ==
    /\ g # h
    /\ Looked(g) /\ Looked(h)
    /\ handlers[g].cacheKey = handlers[h].cacheKey
    /\ ~handlers[g].lookup.set /\ ~handlers[h].lookup.set

\* C17: requests that overlap on one key each run the pipeline from the first
\* stage and are answered with the payload of their own run; the cache holds
\* the whole payload of the request that stored last, and every hit reads the
\* whole payload of one request.
C17_LastWriteWins ==
    /\ \A g, h \in Handlers :
          Overlapped(g, h) => Recomputes(g) /\ Recomputes(h)
    /\ \A h \in Handlers :
          (Keyed(h) /\ handlers[h].stored)
              => /\ handlers[h].response = Reply(200, OwnPayload(h))
                 /\ BlogWanted(handlers[h].opts.generateBlog)
                        => "blog" \in DOMAIN handlers[h].response.body
    /\ \A k \in DOMAIN combinedCache :
          /\ k \in DOMAIN lastSet
          /\ combinedCache[k].v = lastSet[k].v
    /\ \A k \in DOMAIN lastSet :
          /\ handlers[lastSet[k].by].stored
          /\ handlers[lastSet[k].by].storedAt = lastSet[k].at
          /\ lastSet[k].v = OwnPayload(lastSet[k].by)
          /\ \A h \in Handlers :
                (Keyed(h) /\ handlers[h].cacheKey = k /\ handlers[h].stored)
                    => handlers[h].storedAt <= lastSet[k].at
    /\ \A h \in Handlers :
          (Looked(h) /\ handlers[h].lookup.result.hit)
              => \E g \in Handlers :
                    handlers[g].stored /\ handlers[h].lookup.result.v = OwnPayload(g)

\* two overlapping requests stored different payloads, the first arrival last
C17_Witness ==
    /\ Overlapped(1, 2)
    /\ handlers[1].stored /\ handlers[2].stored
    /\ OwnPayload(1) # OwnPayload(2)
    /\ "blog" \in DOMAIN OwnPayload(1)
    /\ lastSet[handlers[1].cacheKey].by = 1
    /\ CacheGet(combinedCache, handlers[1].cacheKey, now) = [hit |-> TRUE, v |-> OwnPayload(1)]

\* the stage a call of the handler belongs to
Stage(e) == CASE e = "extract" -> 1
              [] e = "get" -> 2
              [] e \in {"fetch", "placeholder"} -> 3
              [] e = "refine" -> 4
              [] e = "compose" -> 5
              [] e = "set" -> 6

\* the calls of slot h were started in the order of the stages, and only the
\* acquisition made more than one
InPipelineOrder(h) ==
    LET e == handlers[h].events
    IN  \A i, j \in 1..Len(e) :
            i < j => \/ Stage(e[i]) < Stage(e[j])
                     \/ Stage(e[i]) = 3 /\ Stage(e[j]) = 3

\* C18: within one request no fetchTranscript call starts before the identifier
\* is extracted, no refinement starts before the acquisition has finished, no
\* composition starts before the refinement has finished or been skipped, and
\* the composition is handed the refined transcript when the refinement
\* produced one and the raw transcript otherwise.
C18_StagesInPipelineOrder ==
    \A h \in Handlers :
        handlers[h].pc # "Idle" =>
            LET r == handlers[h]
                started(e) == \E i \in 1..Len(r.events) : r.events[i] = e
            IN  /\ InPipelineOrder(h)
                /\ started("fetch") => r.events[1] = "extract" /\ r.videoId # <<>>
                /\ r.pc \in {"TryPrimary", "TrySecondary", "Synthesize"}
                       => r.transcript = <<>> /\ ~started("refine") /\ ~started("compose")
                /\ started("refine") => r.transcript # <<>>
                /\ r.refineRequests > 0 => started("refine")
                /\ r.pc = "Refine" => r.refinedTranscript = Null /\ ~started("compose")
                /\ started("compose")
                       => /\ r.transcript # <<>>
                          /\ started("refine") <=> r.refinedTranscript # Null
                          /\ r.blogArg = Some(IF r.refinedTranscript # Null
                                              THEN r.refinedTranscript.value
                                              ELSE r.transcript)
                /\ r.composeRequests > 0 => started("compose")

\* the second provider answered, the refinement changed the text, and the
\* composition was handed the refined transcript
C18_Witness ==
    \E h \in Handlers :
        /\ handlers[h].pc = "Responded"
        /\ handlers[h].events = <<"extract", "get", "fetch", "fetch", "refine", "compose", "set">>
        /\ handlers[h].refinedTranscript # Null
        /\ handlers[h].refinedTranscript.value # handlers[h].transcript
        /\ handlers[h].blogArg = handlers[h].refinedTranscript
        /\ handlers[h].composeRequests = 1

\* the handler of slot h started the call e
Started(h, e) == \E i \in 1..Len(handlers[h].events) : handlers[h].events[i] = e

\* the handler of slot h has answered a request whose transcript it acquired
Answered(h) == handlers[h].pc = "Responded" /\ handlers[h].transcript # <<>>

-----------------------------------------------------------------------------
(* Further properties of getVideoId, checked under SpecExtract *)

\* C21: every value getVideoId returns that is not null is exactly 11
\* characters long, whichever expression matched.
C21_IdentifierHasElevenChars ==
    (xpc = "done" /\ xImpl = "service" /\ xOut.ok) => Len(xOut.id) = idLength

-----------------------------------------------------------------------------
(* Properties of the handlers of /api/process and /api/transcript, checked
   under SpecHandlers *)

-----------------------------------------------------------------------------
(* Properties of fetchTranscript, checked under SpecFetch *)

\* C23: once the video was found accessible, the original provider's
\* fetchTranscript throws only after it has tried all four permutations, in the
\* order language, unspecified, English, language with region.
C23_FailureAfterAllPermutations ==
    (/\ fetch.pc = "done"
     /\ fetch.draft \in {"basic", "full"}
     /\ ~fetch.out.ok
     /\ fetch.out.cause # "probe")
        => fetch.tried = Strategies("full", fetch.language)

\* C24: the alternative provider selects, whatever the order of the track
\* list, a track of exactly the requested language if there is one, else a
\* track whose code begins with the requested language, else an English track,
\* else the first track; with an empty track list it fails as not found.
C24_TrackByStrictPriority ==
    /\ (fetch.draft = "alternative" /\ fetch.selected # 0) =>
          LET t == fetch.tracks
              s == t[fetch.selected]
              some(P(_)) == \E i \in 1..Len(t) : P(t[i])
              exact(code) == code = fetch.language
              prefixed(code) == TrackMatches(code, fetch.language)
              english(code) == TrackMatches(code, English)
          IN  IF some(exact) THEN exact(s)
              ELSE IF some(prefixed) THEN prefixed(s)
              ELSE IF some(english) THEN english(s)
              ELSE fetch.selected = 1
    /\ (fetch.draft = "alternative" /\ fetch.listed /\ fetch.tracks = <<>>) =>
          /\ fetch.pc = "done"
          /\ fetch.out = FetchFailure("alternative", "alternative", "nocaptions")

-----------------------------------------------------------------------------
(* Properties of the failures of fetchTranscript, checked under SpecFetch *)

\* the kind of failure a message of fetchTranscript tells its caller: the catch
\* blocks rewrite the causes they recognise and wrap every other one
ErrorKind(error) ==
    IF error.head \in {"Failed to fetch transcript: ", "Unable to fetch transcript: "}
    THEN "generic"
    ELSE IF error.head \in
              {"Video unavailable: The video may be private, deleted, or age-restricted",
               "The requested video is unavailable. It may be private, deleted, or age-restricted."}
    THEN "unavailable"
    ELSE "notfound"

\* C25: every failure of fetchTranscript is reported by its cause: no captions,
\* captions disabled or no track in the language as not-found, a video that
\* cannot be accessed (failed probe, private, deleted, age-restricted) as
\* unavailable, any other upstream failure as a generic provider failure.
C25_FailureClassifiedByCause ==
    (fetch.pc = "done" /\ ~fetch.out.ok) =>
        LET kind == ErrorKind(fetch.out.error)
        IN  /\ fetch.out.cause \in {"disabled", "nolang", "nocaptions"} => kind = "notfound"
            /\ fetch.out.cause \in {"probe", "unavailable"} => kind = "unavailable"
            /\ fetch.out.cause = "other" => kind = "generic"

-----------------------------------------------------------------------------
(* Properties of the failures of the handlers, checked under SpecPipeline and SpecHandlers *)

\* the composition called by slot h has failed and the handler has answered
CompositionFailed(h) ==
    /\ handlers[h].pc = "Responded"
    /\ Started(h, "compose")
    /\ ~handlers[h].stored

\* C26: when the composition fails after the transcript was acquired, the
\* response of /api/process has status 500 and carries the transcript data
\* computed so far: videoId, raw, refined, transcriptUnavailable and
\* usedAlternativeService.
C26_TranscriptKeptOnCompositionFailure ==
    \A h \in Handlers :
        CompositionFailed(h) =>
            LET r == handlers[h]
            IN  /\ r.response.status = 500
                /\ "transcript" \in DOMAIN r.response.body
                /\ r.response.body.transcript =
                       [videoId |-> r.videoId, raw |-> r.transcript,
                        refined |-> r.refinedTranscript,
                        transcriptUnavailable |-> r.transcriptUnavailable,
                        usedAlternativeService |-> r.usedAlternativeService]

\* the refinement called by slot h has settled with the segments marked as failed
RefinementFailed(h) ==
    /\ handlers[h].pc \notin {"Idle", "Refine"}
    /\ Started(h, "refine")
    /\ handlers[h].refinedTranscript = Some(RefinementFailure(handlers[h].transcript))

NoTranscriptErrors ==
    { fetchTranscriptError("original", "basic", cause) : cause \in {"disabled", "nolang", "empty"} }

\* C28: POST /api/transcript answers 404 whenever fetchTranscript fails because
\* no transcript can be had for the video; the failure is not forwarded as a
\* generic error.
C28_NoTranscriptAnswers404 ==
    \A h \in Handlers :
        (/\ controller = "transcript"
         /\ handlers[h].pc = "Responded"
         /\ handlers[h].transcriptError \in NoTranscriptErrors)
            => handlers[h].response.status = 404

-----------------------------------------------------------------------------
(* Properties of the batches of refineTranscript, checked under SpecRefine *)

\* refineTranscript has returned after its loop over the batches: the transcript
\* has segments, was not returned as a placeholder, and the client was ready
BatchesDone ==
    /\ rpc = "done"
    /\ Len(rInput) > 0
    /\ geminiModel[rSvc]
    /\ ~(SkipsPlaceholder(rSvc, originalDraft) /\ IsPlaceholder(rInput))

\* the texts the prompts of the requests enumerate, in the order of the requests
RECURSIVE Prompted(_)
Prompted(k) ==
    IF k = 0 THEN <<>>
    ELSE Prompted(k - 1) \o [j \in 1..Len(requests[k].prompt) |-> requests[k].prompt[j].text]

\* C29: refineTranscript cuts a transcript of n segments into ceil(n/15)
\* consecutive batches which, put together in order, are the input: every batch
\* but the last has 15 segments, the last has 1 to 15, and each batch has
\* exactly one request to the generative provider.
C29_BatchesPartitionTranscript ==
    BatchesDone =>
        LET n == Len(rInput)
            m == Len(requests)
        IN  /\ (m - 1) * 15 < n /\ n <= m * 15
            /\ Len(replies) = m
            /\ \A k \in 1..(m - 1) : Len(requests[k].prompt) = 15
            /\ Len(requests[m].prompt) \in 1..15
            /\ Prompted(m) = [k \in 1..n |-> rInput[k].text]

C29_Witness ==
    /\ BatchesDone
    /\ Len(rInput) = 31
    /\ Len(requests) = 3
    /\ Len(requests[3].prompt) = 1
    /\ "error" \in Range(replies)

\* the number the prompt gave to the k-th segment of the transcript
PromptNumber(k) ==
    LET b == ((k - 1) \div batchSize) + 1
    IN  requests[b].prompt[k - (b - 1) * batchSize].number

\* C30: the number a segment has in the prompt and the index by which the
\* reply is merged denote the same segment: the entry of the reply that
\* carries the number the prompt gave to a segment replaces the text of that
\* segment, and a segment whose number no entry carries keeps its text.
C30_PromptNumberIsMergeIndex ==
    LoopFinished =>
        \A k \in 1..Len(rInput) :
            ReplyFor(k) \in Shapes \ {"nullentry"} =>
                LET i == ((k - 1) \div batchSize) * batchSize
                    refinedSegments == Entries(ReplyFor(k), Batch(rInput, i))
                    e == Find(refinedSegments, PromptNumber(k))
                IN  rOut[k].text = IF e # 0 THEN refinedSegments[e].refined
                                   ELSE rInput[k].text

-----------------------------------------------------------------------------
(* Properties of the cache under failing requests, checked under SpecHandlers *)

\* the request of slot h has ended in an error response
Failed(h) == handlers[h].pc = "Responded" /\ handlers[h].response.status # 200

\* slot h takes a step that does not end in a stored result
StepWithoutResult(h) ==
    /\ handlers'[h] # handlers[h]
    /\ ~(handlers'[h].pc = "Responded" /\ handlers'[h].stored)

\* every entry of the cache after the step was there before it, unchanged, and
\* an entry that is gone was past its time
NothingStored ==
    /\ DOMAIN combinedCache' \subseteq DOMAIN combinedCache
    /\ \A k \in DOMAIN combinedCache' : combinedCache'[k] = combinedCache[k]
    /\ \A k \in DOMAIN combinedCache \ DOMAIN combinedCache' : Expired(combinedCache[k], now)

\* C31 as stated: a request that ends in an error response (400, 404, 500)
\* leaves the cache exactly as it was before the request; its lookup removed
\* no entry and it stored none.
C31_ErrorLeavesCacheAsItWas ==
    \A h \in Handlers :
        Failed(h) => /\ ~handlers[h].stored
                     /\ ~handlers[h].lookup.evicted

\* C31, amended: a request that ends in an error response creates and changes
\* no entry of the cache: none of its steps stores anything, and the only
\* entry its lookup can remove is one of its key that is past its time.
C31_ErrorStoresNothing ==
    /\ [](\A h \in Handlers : Failed(h) => ~handlers[h].stored)
    /\ [][\A h \in Handlers : StepWithoutResult(h) => NothingStored]_vars

C31_Witness ==
    \E h \in Handlers :
        /\ Failed(h)
        /\ handlers[h].response.status \in {404, 500}
        /\ handlers[h].lookup.evicted
        /\ handlers[h].cacheKey \notin DOMAIN combinedCache

-----------------------------------------------------------------------------
(* Properties of the Article, checked under SpecCompose *)

\* C32: the title of the Article is the first line of the generated content
\* without its leading '#' markers and one pair of surrounding quotes; when that
\* is empty or has fewer than 3 characters after trimming, the title is the
\* default that names the video id (no video title is supplied), so the title
\* is never empty.
C32_TitleExtractedOrSubstituted ==
    (bpc = "done" /\ bOut.ok) =>
        LET title == StripQuotes(StripHeading(FirstLine(bOut.article.content)))
        IN  /\ bOut.article.title =
                   IF title = <<>> \/ Len(Trim(title)) < 3 THEN DefaultTitle(bVideoId)
                   ELSE title
            /\ bOut.article.title # <<>>

-----------------------------------------------------------------------------
(* Properties of generateBlog, checked under SpecBlog *)

\* the transcript the Article answered by slot h was composed from: its own
\* call, or the call of the slot that stored the entry it was served
ComposedFrom(h) ==
    IF handlers[h].stored THEN handlers[h].blogArg
    ELSE handlers[handlers[h].lookup.last.by].blogArg

\* C33: POST /api/blog answers with an Article composed from the transcript of
\* that same request: two requests with the same videoId and useRefined but
\* different transcripts never receive the same stored Article.
C33_ArticleFromOwnTranscript ==
    \A h \in Handlers :
        (handlers[h].pc = "Responded" /\ handlers[h].response.status = 200)
            => ComposedFrom(h) = Some(TranscriptData(handlers[h].opts))

-----------------------------------------------------------------------------
(* Properties of getYouTubeClient, checked under SpecClient *)

\* C34: as long as no construction has failed, Innertube.create() is invoked at
\* most once, whatever the interleaving of the callers, and all callers get the
\* same client; while every construction so far has failed the client is unset.
C34_ClientConstructedOnce ==
    /\ fetch.failed = 0 =>
          /\ fetch.created <= 1
          /\ \A g, h \in Handlers :
                (fetch.callers[g].pc = "returned" /\ fetch.callers[h].pc = "returned")
                    => fetch.callers[g].got = fetch.callers[h].got
    /\ (fetch.failed = fetch.created /\ \A h \in Handlers : fetch.callers[h].pc # "creating")
          => fetch.youtubeClient = NoClient

-----------------------------------------------------------------------------
(* Properties of the transcript flags, checked under SpecPipeline *)

\* the flags of a payload of processYouTubeUrl agree with its transcript
FlagsAgree(payload) ==
    /\ ~(payload.transcriptUnavailable /\ payload.usedAlternativeService)
    /\ payload.transcriptUnavailable <=> IsPlaceholder(payload.raw)
    /\ payload.transcriptUnavailable => payload.refined = Null

\* C35: in every successful response of /api/process and every cached payload,
\* transcriptUnavailable and usedAlternativeService are never both true,
\* transcriptUnavailable is true exactly when raw is a synthesized placeholder
\* of one segment, and a request whose transcript is unavailable has not
\* invoked the refinement and has refined = null.
C35_FlagsAgreeWithTranscript ==
    controller \in {"eager", "lazy"} =>
        /\ \A k \in DOMAIN combinedCache : FlagsAgree(combinedCache[k].v)
        /\ \A h \in Handlers :
              (/\ handlers[h].pc = "Responded"
               /\ handlers[h].response.status = 200
               /\ "raw" \in DOMAIN handlers[h].response.body) =>
                  /\ FlagsAgree(handlers[h].response.body)
                  /\ (handlers[h].stored /\ handlers[h].transcriptUnavailable) =>
                        (~Started(h, "refine") /\ handlers[h].refineRequests = 0)

C35_Witness ==
    \E g, h \in Handlers :
        /\ controller \in {"eager", "lazy"}
        /\ handlers[g].pc = "Responded" /\ handlers[g].stored
        /\ handlers[g].response.body.transcriptUnavailable
        /\ handlers[g].cacheKey \in DOMAIN combinedCache
        /\ handlers[h].pc = "Responded" /\ handlers[h].stored
        /\ handlers[h].response.body.usedAlternativeService
        /\ handlers[h].response.body.refined # Null

\* slot g has stored a result built from a placeholder, and slot h has looked
\* the same key up after that, within the lifetime of the entry
PlaceholderStoredBefore(g, h) ==
    /\ controller \in {"eager", "lazy"}
    /\ handlers[g].pc = "Responded" /\ handlers[g].stored
    /\ handlers[g].transcriptUnavailable
    /\ Looked(h)
    /\ handlers[h].cacheKey = handlers[g].cacheKey
    /\ handlers[h].lookup.set
    /\ handlers[h].lookup.last.by = g
    /\ handlers[h].lookup.at <= handlers[g].storedAt + stdTTL

-----------------------------------------------------------------------------
(* Properties of the outcomes of processYouTubeUrl, checked under SpecPipeline *)

\* C37: every invocation of processYouTubeUrl gives its caller exactly one
\* outcome, a response or an error passed to next: none before the handler
\* returns, and one, never two, once it has returned, on every path.
C37_ExactlyOneOutcome ==
    \A h \in Handlers :
        handlers[h].pc # "Idle" =>
            IF handlers[h].pc = "Responded"
            THEN handlers[h].outcomes = 1 /\ handlers[h].response # NoResponse
            ELSE handlers[h].outcomes = 0 /\ handlers[h].response = NoResponse

C37_Witness ==
    \E g, h \in Handlers :
        /\ handlers[g].pc = "Responded"
        /\ handlers[g].response = DebugReply(handlers[g].videoId)
        /\ handlers[g].outcomes = 1
        /\ handlers[h].pc = "Responded"
        /\ Started(h, "placeholder")
        /\ handlers[h].response.status = 500
        /\ ~Started(h, "compose")
        /\ handlers[h].outcomes = 1

-----------------------------------------------------------------------------
(* Termination of processYouTubeUrl, checked under SpecPipelineLive *)

\* the position of a handler along its path
Rank(p) == CASE p = "Idle" -> 0
             [] p = "Debug" -> 1
             [] p = "TryPrimary" -> 2
             [] p = "TrySecondary" -> 3
             [] p = "Synthesize" -> 4
             [] p = "Refine" -> 5
             [] p = "Compose" -> 6
             [] p = "Responded" -> 7

\* every request that has arrived is answered
Responds == \A h \in Handlers : (handlers[h].pc # "Idle") ~> (handlers[h].pc = "Responded")

\* every step of a handler takes it forward: TryPrimary, TrySecondary and
\* Synthesize are visited at most once each, in that order
Forward ==
    \A h \in Handlers :
        handlers'[h] # handlers[h] => Rank(handlers'[h].pc) > Rank(handlers[h].pc)

\* the refinement makes at most one request per batch of 15 segments, the
\* composition at most 2
LoopsBounded ==
    \A h \in Handlers :
        handlers[h].pc # "Idle" =>
            /\ handlers[h].refineRequests * 15 < Len(handlers[h].transcript) + 15
            /\ handlers[h].composeRequests <= 2

====
